---- MODULE Spec2Model ----
(***************************************************************************)
(* A model of the planck-array 2D physics engine: the AABB primitives, the *)
(* dynamic AABB tree and the broad phase built on it, the contact and      *)
(* body/joint life cycle of the world, and the vector / matrix routines.   *)
(*                                                                         *)
(* Coordinates are integers.  One model unit is the tree's skin width      *)
(* (aabbExtension), so a user AABB (0,0)-(2,2) has the fat AABB            *)
(* (-1,-1)-(3,3).  A vector [x, y] of the code is the tuple <<x, y>>: the  *)
(* code's index [0] is the model's [1], the code's [1] the model's [2].    *)
(***************************************************************************)
EXTENDS Integers, Sequences, FiniteSets, TLC

VARIABLES
    nodes,       \* DynamicTree.m_nodes: pool index -> tree node
    root,        \* DynamicTree.m_root: pool index of the root, or NullNode
    freeList,    \* the pool's free-list, head first
    actors,      \* the driver's actors: user data -> its proxy id and user AABB
    moveBuffer,  \* BroadPhase.m_moveBuffer
    touched,     \* ids passed to createProxy / moveProxy since the last updatePairs
    last,        \* the last call made and what it returned
    steps,       \* the number of calls made so far
    world,       \* the World: bodies, fixtures, proxies, contacts, joints, edge lists
    listener,    \* the contact listener: the callbacks of the last call, and which
                 \* contacts have had beginContact without endContact
    lastWorld,   \* the last destroyBody or destroyJoint, when it was the last call
    mat,         \* a Mat22, a Mat33, their operands, and the last product taken
    vec,         \* the Vec2 arrays in memory, and the last Vec2 call made on them
    calc         \* the arguments of a function, the function called and its result

treeVars == <<nodes, root, freeList, actors, moveBuffer, touched, last, steps>>
worldVars == <<world, listener, lastWorld>>

exceptTreeVars == <<worldVars, mat, vec, calc>>
exceptWorldVars == <<treeVars, mat, vec, calc>>
exceptMatVars == <<treeVars, worldVars, vec, calc>>
exceptVecVars == <<treeVars, worldVars, mat, calc>>
exceptCalcVars == <<treeVars, worldVars, mat, vec>>

vars == <<nodes, root, freeList, actors, moveBuffer, touched, last, steps,
          world, listener, lastWorld, mat, vec, calc>>

----------------------------------------------------------------------------
(* Bounds *)

\* proxies alive at once; calls the tree's driver makes in one run; calls the
\* broad phase's driver makes in one run
MaxProxies == 4
MaxOps == 6
MaxPairOps == 5

\* bodies, fixtures, contacts and joints a world holds at once
MaxBodies == 3
MaxFixtures == 3
MaxContacts == 2
MaxJoints == 2

----------------------------------------------------------------------------
(* Small helpers *)

NullNode == -1

math_max(a, b) == IF a >= b THEN a ELSE b
math_min(a, b) == IF a <= b THEN a ELSE b

----------------------------------------------------------------------------
(* AABB  (src/src/collision/AABB.ts) *)

Vec2_zero == <<0, 0>>

\* new AABB(lower, upper)
AABB_new(lower, upper) == [lowerBound |-> lower, upperBound |-> upper]

\* new AABB()
AABB_default == AABB_new(Vec2_zero, Vec2_zero)

AABB_getPerimeter(a) ==
    2 * (a.upperBound[1] - a.lowerBound[1] + a.upperBound[2] - a.lowerBound[2])

\* combine that takes the upper bound of a alone
AABB_combine_upperOfA(a, b) ==
    LET lowerX == math_min(a.lowerBound[1], b.lowerBound[1])
        lowerY == math_min(a.lowerBound[2], b.lowerBound[2])
    IN  AABB_new(<<lowerX, lowerY>>, a.upperBound)

\* combine that takes the larger of the two lower x bounds
AABB_combine_maxLowerX(a, b) ==
    LET lowerX == math_max(a.lowerBound[1], b.lowerBound[1])
        lowerY == math_min(a.lowerBound[2], b.lowerBound[2])
        upperX == math_max(b.upperBound[1], a.upperBound[1])
        upperY == math_max(b.upperBound[2], a.upperBound[2])
    IN  AABB_new(<<lowerX, lowerY>>, <<upperX, upperY>>)

\* this.combine(a, b): the value this takes
AABB_combine(a, b) ==
    LET lowerX == math_min(a.lowerBound[1], b.lowerBound[1])
        lowerY == math_min(a.lowerBound[2], b.lowerBound[2])
        upperX == math_max(b.upperBound[1], a.upperBound[1])
        upperY == math_max(b.upperBound[2], a.upperBound[2])
    IN  AABB_new(<<lowerX, lowerY>>, <<upperX, upperY>>)

\* contains that leaves out the test of the upper x bound
AABB_contains_noUpperX(this, aabb) ==
    /\ this.lowerBound[1] <= aabb.lowerBound[1]
    /\ this.lowerBound[2] <= aabb.lowerBound[2]
    /\ aabb.upperBound[2] <= this.upperBound[2]

\* this.contains(aabb)
AABB_contains(this, aabb) ==
    /\ this.lowerBound[1] <= aabb.lowerBound[1]
    /\ this.lowerBound[2] <= aabb.lowerBound[2]
    /\ aabb.upperBound[1] <= this.upperBound[1]
    /\ aabb.upperBound[2] <= this.upperBound[2]

\* AABB.extend(out, value): the value out takes
AABB_extend(out, value) ==
    AABB_new(<<out.lowerBound[1] - value, out.lowerBound[2] - value>>,
             <<out.upperBound[1] + value, out.upperBound[2] + value>>)

\* testOverlap that takes boxes that only touch as apart (>= for >)
AABB_testOverlap_strict(a, b) ==
    LET d1x == b.lowerBound[1] - a.upperBound[1]
        d2x == a.lowerBound[1] - b.upperBound[1]
        d1y == b.lowerBound[2] - a.upperBound[2]
        d2y == a.lowerBound[2] - b.upperBound[2]
    IN  IF d1x >= 0 \/ d1y >= 0 \/ d2x >= 0 \/ d2y >= 0 THEN FALSE ELSE TRUE

\* testOverlap that compares the x extents alone
AABB_testOverlap_xOnly(a, b) ==
    LET d1x == b.lowerBound[1] - a.upperBound[1]
        d2x == a.lowerBound[1] - b.upperBound[1]
    IN  IF d1x > 0 \/ d2x > 0 THEN FALSE ELSE TRUE

\* AABB.testOverlap(a, b)
AABB_testOverlap(a, b) ==
    LET d1x == b.lowerBound[1] - a.upperBound[1]
        d2x == a.lowerBound[1] - b.upperBound[1]
        d1y == b.lowerBound[2] - a.upperBound[2]
        d2y == a.lowerBound[2] - b.upperBound[2]
    IN  IF d1x > 0 \/ d1y > 0 \/ d2x > 0 \/ d2y > 0 THEN FALSE ELSE TRUE

\* AABB.combinedPerimeter(a, b)
AABB_combinedPerimeter(a, b) ==
    LET lx == math_min(a.lowerBound[1], b.lowerBound[1])
        ly == math_min(a.lowerBound[2], b.lowerBound[2])
        ux == math_max(a.upperBound[1], b.upperBound[1])
        uy == math_max(a.upperBound[2], b.upperBound[2])
    IN  2 * (ux - lx + uy - ly)

----------------------------------------------------------------------------
(* Dynamic AABB tree  (spec 3 "Dynamic Tree node", 4.1, 5)                  *)
(*                                                                         *)
(* A tree value T is the record [nodes, root, freeList].  The pool is as   *)
(* large as MaxProxies leaves can need (2n - 1 nodes), which stands for a  *)
(* pool that grows on demand.                                              *)

\* the skin a leaf's AABB is inflated by, and the displacement multiplier
AabbExtension == 1
AabbMultiplier == 2

PoolSize == 2 * MaxProxies - 1
NodeIds == 0 .. (PoolSize - 1)

NoData == 0

\* a node resting in the free-list
FreeNodeRec ==
    [aabb |-> AABB_default, userData |-> NoData, parent |-> NullNode,
     child1 |-> NullNode, child2 |-> NullNode, height |-> -1]

EmptyTree ==
    [nodes |-> [i \in NodeIds |-> FreeNodeRec],
     root |-> NullNode,
     freeList |-> [i \in 1 .. PoolSize |-> i - 1]]

IsLeaf(n) == n.child1 = NullNode

\* take the head of the free-list: [T, id]
AllocateNode(T) ==
    LET id == Head(T.freeList)
    IN  [T |-> [T EXCEPT !.freeList = Tail(T.freeList),
                         !.nodes[id] = [FreeNodeRec EXCEPT !.height = 0]],
         id |-> id]

\* return a node to the head of the free-list
FreeNode(T, id) ==
    [T EXCEPT !.nodes[id] = FreeNodeRec, !.freeList = <<id>> \o T.freeList]

\* replace child old of node p by new
SetChild(n, p, old, new) ==
    IF n[p].child1 = old THEN [n EXCEPT ![p].child1 = new]
                         ELSE [n EXCEPT ![p].child2 = new]

\* height and AABB of an internal node recomputed from its children
Refit(n, i) ==
    LET c1 == n[i].child1
        c2 == n[i].child2
    IN  [n EXCEPT ![i].height = 1 + math_max(n[c1].height, n[c2].height),
                  ![i].aabb = AABB_combine(n[c1].aabb, n[c2].aabb)]

\* rotate child iU of iA up: iU takes iA's place, iA becomes its child1, and the
\* taller grandchild stays with iU; side says which child of iA iU was
RotateUp(T, iA, iU, side) ==
    LET n0 == T.nodes
        iX == n0[iU].child1
        iY == n0[iU].child2
        up == n0[iA].parent
        n1 == [n0 EXCEPT ![iU].child1 = iA, ![iU].parent = up, ![iA].parent = iU]
        n2 == IF up # NullNode THEN SetChild(n1, up, iA, iU) ELSE n1
        r2 == IF up # NullNode THEN T.root ELSE iU
        keep == IF n0[iX].height > n0[iY].height THEN iX ELSE iY
        give == IF n0[iX].height > n0[iY].height THEN iY ELSE iX
        n3 == [n2 EXCEPT ![iU].child2 = keep, ![give].parent = iA]
        n4 == IF side = 2 THEN [n3 EXCEPT ![iA].child2 = give]
                          ELSE [n3 EXCEPT ![iA].child1 = give]
        n5 == Refit(Refit(n4, iA), iU)
    IN  [T |-> [T EXCEPT !.nodes = n5, !.root = r2], index |-> iU]

\* restore balance at iA: [T, index], index the node now in iA's place
Balance(T, iA) ==
    LET A == T.nodes[iA]
    IN  IF IsLeaf(A) \/ A.height < 2
        THEN [T |-> T, index |-> iA]
        ELSE LET iB == A.child1
                 iC == A.child2
                 balance == T.nodes[iC].height - T.nodes[iB].height
             IN  IF balance > 1 THEN RotateUp(T, iA, iC, 2)
                 ELSE IF balance < -1 THEN RotateUp(T, iA, iB, 1)
                 ELSE [T |-> T, index |-> iA]

\* walk from index to the root, balancing and refitting each node
RECURSIVE FixUpward(_, _)
FixUpward(T, index) ==
    IF index = NullNode THEN T
    ELSE LET b == Balance(T, index)
             i == b.index
             T1 == [b.T EXCEPT !.nodes = Refit(b.T.nodes, i)]
         IN  FixUpward(T1, T1.nodes[i].parent)

\* the descent of insertLeaf: the sibling the new leaf is paired with
RECURSIVE FindSibling(_, _, _)
FindSibling(n, index, leafAABB) ==
    IF IsLeaf(n[index]) THEN index
    ELSE LET child1 == n[index].child1
             child2 == n[index].child2
             area == AABB_getPerimeter(n[index].aabb)
             combinedArea == AABB_combinedPerimeter(n[index].aabb, leafAABB)
             cost == 2 * combinedArea
             inheritanceCost == 2 * (combinedArea - area)
             Descend(c) ==
                 (IF IsLeaf(n[c])
                  THEN AABB_combinedPerimeter(leafAABB, n[c].aabb)
                  ELSE AABB_combinedPerimeter(leafAABB, n[c].aabb)
                           - AABB_getPerimeter(n[c].aabb))
                 + inheritanceCost
             cost1 == Descend(child1)
             cost2 == Descend(child2)
         IN  IF cost < cost1 /\ cost < cost2 THEN index
             ELSE FindSibling(n, IF cost1 < cost2 THEN child1 ELSE child2, leafAABB)

InsertLeaf(T, leaf) ==
    IF T.root = NullNode
    THEN [T EXCEPT !.root = leaf, !.nodes[leaf].parent = NullNode]
    ELSE LET leafAABB == T.nodes[leaf].aabb
             sibling == FindSibling(T.nodes, T.root, leafAABB)
             oldParent == T.nodes[sibling].parent
             al == AllocateNode(T)
             newParent == al.id
             n1 == [al.T.nodes EXCEPT
                       ![newParent].parent = oldParent,
                       ![newParent].aabb = AABB_combine(leafAABB, T.nodes[sibling].aabb),
                       ![newParent].height = T.nodes[sibling].height + 1,
                       ![newParent].child1 = sibling,
                       ![newParent].child2 = leaf,
                       ![sibling].parent = newParent,
                       ![leaf].parent = newParent]
             n2 == IF oldParent # NullNode
                   THEN SetChild(n1, oldParent, sibling, newParent) ELSE n1
             r2 == IF oldParent # NullNode THEN T.root ELSE newParent
         IN  FixUpward([al.T EXCEPT !.nodes = n2, !.root = r2], newParent)

\* removeLeaf that returns the sibling, not the parent, to the free-list
RemoveLeaf_freesSibling(T, leaf) ==
    IF leaf = T.root THEN [T EXCEPT !.root = NullNode]
    ELSE LET parent == T.nodes[leaf].parent
             sibling == IF T.nodes[parent].child1 = leaf
                        THEN T.nodes[parent].child2 ELSE T.nodes[parent].child1
         IN  [T EXCEPT !.freeList = <<sibling>> \o T.freeList]

RemoveLeaf(T, leaf) ==
    IF leaf = T.root THEN [T EXCEPT !.root = NullNode]
    ELSE LET parent == T.nodes[leaf].parent
             grandParent == T.nodes[parent].parent
             sibling == IF T.nodes[parent].child1 = leaf
                        THEN T.nodes[parent].child2 ELSE T.nodes[parent].child1
         IN  IF grandParent # NullNode
             THEN LET n1 == SetChild(T.nodes, grandParent, parent, sibling)
                      n2 == [n1 EXCEPT ![sibling].parent = grandParent,
                                       ![leaf].parent = NullNode]
                  IN  FixUpward(FreeNode([T EXCEPT !.nodes = n2], parent), grandParent)
             ELSE LET n2 == [T.nodes EXCEPT ![sibling].parent = NullNode,
                                            ![leaf].parent = NullNode]
                  IN  FreeNode([T EXCEPT !.nodes = n2, !.root = sibling], parent)

\* createProxy(aabb, userData): [T, id]
Tree_createProxy(T, aabb, userData) ==
    LET al == AllocateNode(T)
        id == al.id
        T1 == [al.T EXCEPT !.nodes[id].aabb = AABB_extend(aabb, AabbExtension),
                           !.nodes[id].userData = userData,
                           !.nodes[id].height = 0]
    IN  [T |-> InsertLeaf(T1, id), id |-> id]

\* destroyProxy(id)
Tree_destroyProxy(T, id) == FreeNode(RemoveLeaf(T, id), id)

\* the fat AABB moveProxy gives a leaf: aabb with the skin, stretched along d
PredictAABB(aabb, d) ==
    LET e == AABB_extend(aabb, AabbExtension)
        lx == IF d[1] < 0 THEN e.lowerBound[1] + d[1] * AabbMultiplier ELSE e.lowerBound[1]
        ux == IF d[1] < 0 THEN e.upperBound[1] ELSE e.upperBound[1] + d[1] * AabbMultiplier
        ly == IF d[2] < 0 THEN e.lowerBound[2] + d[2] * AabbMultiplier ELSE e.lowerBound[2]
        uy == IF d[2] < 0 THEN e.upperBound[2] ELSE e.upperBound[2] + d[2] * AabbMultiplier
    IN  AABB_new(<<lx, ly>>, <<ux, uy>>)

\* moveProxy(id, aabb, d): [T, ret]
Tree_moveProxy(T, id, aabb, d) ==
    IF AABB_contains(T.nodes[id].aabb, aabb)
    THEN [T |-> T, ret |-> FALSE]
    ELSE LET T1 == RemoveLeaf(T, id)
             T2 == [T1 EXCEPT !.nodes[id].aabb = PredictAABB(aabb, d)]
         IN  [T |-> InsertLeaf(T2, id), ret |-> TRUE]

\* query(aabb, cb) with cb always true: the ids cb is called with, in order.
\* A pre-order walk that skips every subtree whose AABB misses the query.
RECURSIVE QueryFrom(_, _, _)
QueryFrom(n, index, aabb) ==
    IF index = NullNode THEN <<>>
    ELSE IF ~AABB_testOverlap(n[index].aabb, aabb) THEN <<>>
    ELSE IF IsLeaf(n[index]) THEN <<index>>
    ELSE QueryFrom(n, n[index].child1, aabb) \o QueryFrom(n, n[index].child2, aabb)

Tree_query(T, aabb) == QueryFrom(T.nodes, T.root, aabb)

Tree_getUserData(T, id) == T.nodes[id].userData
Tree_getFatAABB(T, id) == T.nodes[id].aabb
Tree_getHeight(T) == IF T.root = NullNode THEN 0 ELSE T.nodes[T.root].height

----------------------------------------------------------------------------
(* The driver of the tree  (src/unnamed/part_001, Collision.test.ts)        *)

\* the user AABBs the driver passes in
Boxes ==
    { AABB_new(<<0, 0>>, <<2, 2>>),
      AABB_new(<<4, 0>>, <<6, 2>>),
      AABB_new(<<1, 5>>, <<3, 7>>) }

\* the (aabb, displacement) pairs the driver passes to moveProxy
MoveInputs ==
    { <<AABB_new(<<1, 0>>, <<3, 2>>), <<1, 0>>>>,
      <<AABB_new(<<4, 0>>, <<6, 2>>), <<0, 0>>>>,
      <<AABB_new(<<9, 4>>, <<11, 6>>), <<-1, -1>>>> }

\* the AABBs the driver queries
QueryBoxes == { AABB_new(<<3, 0>>, <<4, 1>>), AABB_new(<<2, 3>>, <<5, 4>>) }

ActorIds == 1 .. MaxProxies

\* Actor(): no proxy yet
NoActor == [proxyId |-> NullNode, aabb |-> AABB_default]

TheTree == [nodes |-> nodes, root |-> root, freeList |-> freeList]

LiveActors == { j \in ActorIds : actors[j].proxyId # NullNode }
LiveIds == { actors[j].proxyId : j \in LiveActors }

\* createProxy() of the driver picks an actor that has no proxy
FreeActor == CHOOSE j \in ActorIds \ LiveActors : \A k \in ActorIds \ LiveActors : j <= k

NoCall == [op |-> "none", id |-> NullNode, aabb |-> AABB_default, d |-> <<0, 0>>, ret |-> FALSE]

InitTree ==
    /\ nodes = EmptyTree.nodes
    /\ root = EmptyTree.root
    /\ freeList = EmptyTree.freeList
    /\ actors = [j \in ActorIds |-> NoActor]
    /\ moveBuffer = <<>>
    /\ touched = {}
    /\ last = NoCall
    /\ steps = 0

\* one more call, while the driver has calls left
Step ==
    /\ steps < MaxOps
    /\ steps' = steps + 1
    /\ UNCHANGED exceptTreeVars

PairStep ==
    /\ steps < MaxPairOps
    /\ steps' = steps + 1
    /\ UNCHANGED exceptTreeVars

SetTree(T) ==
    /\ nodes' = T.nodes
    /\ root' = T.root
    /\ freeList' = T.freeList

\* actor.proxyId = tree.createProxy(actor.aabb, actor)
CreateProxy(aabb) ==
    /\ LiveActors # ActorIds
    /\ LET j == FreeActor
           r == Tree_createProxy(TheTree, aabb, j)
       IN  /\ SetTree(r.T)
           /\ actors' = [actors EXCEPT ![j] = [proxyId |-> r.id, aabb |-> aabb]]
           /\ last' = [op |-> "createProxy", id |-> r.id, aabb |-> aabb,
                       d |-> <<0, 0>>, ret |-> r.id]
    /\ UNCHANGED <<moveBuffer, touched>>

\* tree.destroyProxy(actor.proxyId); actor.proxyId = null
DestroyProxy(j) ==
    /\ j \in LiveActors
    /\ SetTree(Tree_destroyProxy(TheTree, actors[j].proxyId))
    /\ actors' = [actors EXCEPT ![j] = NoActor]
    /\ last' = [op |-> "destroyProxy", id |-> actors[j].proxyId, aabb |-> AABB_default,
                d |-> <<0, 0>>, ret |-> FALSE]
    /\ UNCHANGED <<moveBuffer, touched>>

\* tree.moveProxy(actor.proxyId, actor.aabb, displacement)
MoveProxy(j, aabb, d) ==
    /\ j \in LiveActors
    /\ LET r == Tree_moveProxy(TheTree, actors[j].proxyId, aabb, d)
       IN  /\ SetTree(r.T)
           /\ last' = [op |-> "moveProxy", id |-> actors[j].proxyId, aabb |-> aabb,
                       d |-> d, ret |-> r.ret]
    /\ actors' = [actors EXCEPT ![j].aabb = aabb]
    /\ UNCHANGED <<moveBuffer, touched>>

\* tree.query(queryAABB, queryCallback), the callback returning true
Query(aabb) ==
    /\ root # NullNode
    /\ last' = [op |-> "query", id |-> NullNode, aabb |-> aabb, d |-> <<0, 0>>,
                ret |-> Tree_query(TheTree, aabb)]
    /\ UNCHANGED <<nodes, root, freeList, actors, moveBuffer, touched>>

NextTree ==
    \/ \E aabb \in Boxes : Step /\ CreateProxy(aabb)
    \/ \E j \in ActorIds : Step /\ DestroyProxy(j)
    \/ \E j \in ActorIds, m \in MoveInputs : Step /\ MoveProxy(j, m[1], m[2])
    \/ \E aabb \in QueryBoxes : Step /\ Query(aabb)

----------------------------------------------------------------------------
(* Properties of the tree *)

\* b lies inside a, written out on the coordinates
Inside(b, a) ==
    /\ a.lowerBound[1] <= b.lowerBound[1] /\ a.lowerBound[2] <= b.lowerBound[2]
    /\ b.upperBound[1] <= a.upperBound[1] /\ b.upperBound[2] <= a.upperBound[2]

\* a and b share a point, written out on the coordinates
Overlaps(a, b) ==
    /\ a.lowerBound[1] <= b.upperBound[1] /\ b.lowerBound[1] <= a.upperBound[1]
    /\ a.lowerBound[2] <= b.upperBound[2] /\ b.lowerBound[2] <= a.upperBound[2]

SeqToSet(q) == { q[i] : i \in 1 .. Len(q) }

UsedNodes == NodeIds \ SeqToSet(freeList)
UsedLeaves == { i \in UsedNodes : nodes[i].child1 = NullNode /\ nodes[i].child2 = NullNode }

ProperNode(i) ==
    LET n == nodes[i]
    IN  /\ (n.parent = NullNode) = (i = root)
        /\ n.parent # NullNode =>
              /\ n.parent \in UsedNodes
              /\ (nodes[n.parent].child1 = i) # (nodes[n.parent].child2 = i)
        /\ \/ /\ i \in UsedLeaves
              /\ n.height = 0
           \/ /\ n.child1 \in UsedNodes /\ n.child2 \in UsedNodes
              /\ n.child1 # n.child2
              /\ nodes[n.child1].parent = i /\ nodes[n.child2].parent = i
              /\ Inside(nodes[n.child1].aabb, n.aabb)
              /\ Inside(nodes[n.child2].aabb, n.aabb)
              /\ n.height = 1 + (IF nodes[n.child1].height >= nodes[n.child2].height
                                 THEN nodes[n.child1].height ELSE nodes[n.child2].height)

\* C1: after any sequence of createProxy, moveProxy and destroyProxy calls the
\* tree is a proper binary tree whose leaves are exactly the live proxies: every
\* internal node has two children, its AABB contains both children's AABBs and
\* its height is 1 + the larger child height; leaves have height 0, so
\* getHeight() is 0 for an empty or single-leaf tree.
C1_ProperTree ==
    /\ UsedLeaves = LiveIds
    /\ Cardinality(LiveIds) = Cardinality(LiveActors)
    /\ (root = NullNode) = (LiveActors = {})
    /\ root # NullNode => root \in UsedNodes
    /\ \A i \in UsedNodes : ProperNode(i)
    /\ LiveActors # {} => Cardinality(UsedNodes) = 2 * Cardinality(LiveActors) - 1
    /\ Cardinality(LiveActors) <= 1 => Tree_getHeight(TheTree) = 0

\* four leaves under a root of height 2, right after a move that re-inserted a leaf
C1_Witness ==
    /\ Cardinality(LiveActors) = 4
    /\ Tree_getHeight(TheTree) = 2
    /\ last.op = "moveProxy" /\ last.ret = TRUE

\* C2: query(aabb, cb) with cb always true calls cb exactly once for each live
\* proxy whose fat AABB overlaps aabb and for no other id: the same set as a
\* brute-force scan over the live proxies.
C2_QueryMatchesBruteForce ==
    last.op = "query" =>
        /\ SeqToSet(last.ret) = { i \in LiveIds : Overlaps(nodes[i].aabb, last.aabb) }
        /\ Cardinality(SeqToSet(last.ret)) = Len(last.ret)

\* a query that reports some live proxies and leaves others out
C2_Witness ==
    /\ last.op = "query"
    /\ Len(last.ret) >= 2
    /\ \E i \in LiveIds : i \notin SeqToSet(last.ret)
    /\ \E i \in SeqToSet(last.ret) : nodes[i].aabb.upperBound[1] = last.aabb.lowerBound[1]

\* every live proxy's fat AABB contains the user AABB last passed in for it
FatCoversUser ==
    \A j \in LiveActors : Inside(actors[j].aabb, nodes[actors[j].proxyId].aabb)

\* a moveProxy step: false and nothing changed when aabb lay inside the fat AABB,
\* otherwise true and the new fat AABB contains aabb
MoveProxyStep ==
    last'.op = "moveProxy" =>
        IF Inside(last'.aabb, nodes[last'.id].aabb)
        THEN last'.ret = FALSE /\ UNCHANGED <<nodes, root, freeList>>
        ELSE last'.ret = TRUE /\ Inside(last'.aabb, nodes'[last'.id].aabb)

\* C3: moveProxy(id, aabb, displacement) returns false and leaves the whole tree
\* unchanged when aabb lies inside the proxy's current fat AABB; otherwise it
\* returns true and afterwards the fat AABB contains aabb.  Hence every live
\* proxy's fat AABB contains the last user AABB passed to createProxy/moveProxy.
C3_MoveProxy == [][MoveProxyStep /\ FatCoversUser']_vars

\* a move that returned false for an AABB other than the one the leaf was made from
C3_Witness ==
    /\ last.op = "moveProxy" /\ last.ret = FALSE
    /\ nodes[last.id].aabb.lowerBound[1] # last.aabb.lowerBound[1] - 1
    /\ Cardinality(LiveActors) >= 2

\* C4: a proxy id stays valid until destroyProxy is called on it: getUserData(id)
\* still returns the user data given at creation whatever was done to other
\* proxies, and no two live proxies share an id.
C4_StableIds ==
    /\ \A j \in LiveActors :
          /\ actors[j].proxyId \in UsedLeaves
          /\ Tree_getUserData(TheTree, actors[j].proxyId) = j
    /\ \A j, k \in LiveActors : j # k => actors[j].proxyId # actors[k].proxyId

\* actor 1 holds id 1, which actor 2 held before and gave back to the free-list,
\* next to a proxy that has been live all along
C4_Witness ==
    /\ 1 \in LiveActors /\ actors[1].proxyId = 1
    /\ 3 \in LiveActors /\ actors[3].proxyId = 3

----------------------------------------------------------------------------
(* Broad phase  (spec 4.2)                                                  *)
(*                                                                         *)
(* A broad-phase value is a tree value with the move buffer.  An id in the *)
(* move buffer whose proxy has been destroyed since has no fat AABB to     *)
(* query with and is passed over by updatePairs.                           *)

\* a pair left in the order found
CanonPair_asFound(a, b) == <<a, b>>

\* the canonical form (min, max) of an unordered pair
CanonPair(a, b) == <<math_min(a, b), math_max(a, b)>>

\* (a1, b1) comes before (a2, b2) in lexicographic order
LexLess(p, q) == p[1] < q[1] \/ (p[1] = q[1] /\ p[2] < q[2])

\* the pairs of S, in ascending lexicographic order
RECURSIVE SortPairs(_)
SortPairs(S) ==
    IF S = {} THEN <<>>
    ELSE LET m == CHOOSE p \in S : \A q \in S \ {p} : LexLess(p, q)
         IN  <<m>> \o SortPairs(S \ {m})

\* the ids of the move buffer, each once, that are proxies of the tree
BufferedProxies(T, buffer) ==
    { id \in { buffer[i] : i \in 1 .. Len(buffer) } :
          T.nodes[id].height = 0 /\ T.nodes[id].userData # NoData }

\* steps 1 and 2 of updatePairs: the set of canonical pairs found
FoundPairs(T, buffer) ==
    UNION { LET q == Tree_query(T, Tree_getFatAABB(T, id))
            IN  { CanonPair(id, q[i]) : i \in { k \in 1 .. Len(q) : q[k] # id } }
          : id \in BufferedProxies(T, buffer) }

\* updatePairs(addPairCallback): the calls of addPairCallback, in order; each call
\* is recorded with the pair's ids and the two arguments passed
BP_updatePairs(T, buffer) ==
    LET sorted == SortPairs(FoundPairs(T, buffer))
    IN  [i \in 1 .. Len(sorted) |->
            [idA |-> sorted[i][1], idB |-> sorted[i][2],
             userDataA |-> Tree_getUserData(T, sorted[i][1]),
             userDataB |-> Tree_getUserData(T, sorted[i][2])]]

\* bp.createProxy(aabb, userData)
BP_CreateProxy(aabb) ==
    /\ LiveActors # ActorIds
    /\ LET j == FreeActor
           r == Tree_createProxy(TheTree, aabb, j)
       IN  /\ SetTree(r.T)
           /\ actors' = [actors EXCEPT ![j] = [proxyId |-> r.id, aabb |-> aabb]]
           /\ moveBuffer' = Append(moveBuffer, r.id)
           /\ touched' = touched \cup {r.id}
           /\ last' = [op |-> "createProxy", id |-> r.id, aabb |-> aabb,
                       d |-> <<0, 0>>, ret |-> r.id]

\* bp.destroyProxy(id)
BP_DestroyProxy(j) ==
    /\ j \in LiveActors
    /\ SetTree(Tree_destroyProxy(TheTree, actors[j].proxyId))
    /\ actors' = [actors EXCEPT ![j] = NoActor]
    /\ moveBuffer' = Append(moveBuffer, actors[j].proxyId)
    /\ touched' = touched \ {actors[j].proxyId}
    /\ last' = [op |-> "destroyProxy", id |-> actors[j].proxyId, aabb |-> AABB_default,
                d |-> <<0, 0>>, ret |-> FALSE]

\* bp.moveProxy(id, aabb, displacement)
BP_MoveProxy(j, aabb, d) ==
    /\ j \in LiveActors
    /\ LET r == Tree_moveProxy(TheTree, actors[j].proxyId, aabb, d)
       IN  /\ SetTree(r.T)
           /\ last' = [op |-> "moveProxy", id |-> actors[j].proxyId, aabb |-> aabb,
                       d |-> d, ret |-> r.ret]
    /\ actors' = [actors EXCEPT ![j].aabb = aabb]
    /\ moveBuffer' = Append(moveBuffer, actors[j].proxyId)
    /\ touched' = touched \cup {actors[j].proxyId}

\* bp.updatePairs(callback)
UpdatePairs ==
    /\ last' = [op |-> "updatePairs", id |-> NullNode, aabb |-> AABB_default,
                d |-> <<0, 0>>, ret |-> BP_updatePairs(TheTree, moveBuffer)]
    /\ moveBuffer' = <<>>
    /\ touched' = {}
    /\ UNCHANGED <<nodes, root, freeList, actors>>

NextBroadPhase ==
    \/ \E aabb \in Boxes : PairStep /\ BP_CreateProxy(aabb)
    \/ \E j \in ActorIds : PairStep /\ BP_DestroyProxy(j)
    \/ \E j \in ActorIds, m \in MoveInputs : PairStep /\ BP_MoveProxy(j, m[1], m[2])
    \/ PairStep /\ UpdatePairs

\* the unordered pairs updatePairs has to report, as sets {a, b}: distinct live
\* proxies with overlapping fat AABBs, one of them created or moved since the
\* previous updatePairs
DuePairs ==
    { {a, b} : a \in LiveIds, b \in LiveIds } \cap
    { P \in SUBSET NodeIds :
          /\ Cardinality(P) = 2
          /\ \A a \in P, b \in P : Overlaps(nodes[a].aabb, nodes[b].aabb)
          /\ P \cap touched # {} }

UpdatePairsStep ==
    last'.op = "updatePairs" =>
        /\ { {last'.ret[i].idA, last'.ret[i].idB} : i \in 1 .. Len(last'.ret) } = DuePairs
        /\ Len(last'.ret) = Cardinality(DuePairs)
        /\ \A i \in 1 .. Len(last'.ret) : last'.ret[i].idA # last'.ret[i].idB
        /\ last.op = "updatePairs" => last'.ret = <<>>

\* C5: updatePairs(cb) calls cb exactly once for each unordered pair of distinct
\* live proxies whose fat AABBs overlap and of which at least one was created or
\* moved since the previous updatePairs, and for no other pair: no pair twice
\* when both moved, no proxy with itself, and nothing when no create/move came
\* in between two updatePairs calls.
C5_UpdatePairs == [][UpdatePairsStep]_vars

\* a call that reports pairs among three or more proxies and leaves a proxy out
C5_Witness ==
    /\ last.op = "updatePairs"
    /\ Len(last.ret) >= 2
    /\ Cardinality(LiveActors) >= 3
    /\ \E i \in LiveIds : \A k \in 1 .. Len(last.ret) : i \notin {last.ret[k].idA, last.ret[k].idB}

\* the actor whose proxy has this id
ActorOf(id) == CHOOSE j \in LiveActors : actors[j].proxyId = id

\* C6: within one updatePairs call the pair callbacks come in ascending
\* lexicographic order of (idA, idB) with idA < idB; the first argument is the
\* user data of the smaller id, the second that of the larger id.
C6_PairOrder ==
    last.op = "updatePairs" =>
        /\ \A i \in 1 .. Len(last.ret) :
              /\ last.ret[i].idA < last.ret[i].idB
              /\ last.ret[i].idA \in LiveIds /\ last.ret[i].idB \in LiveIds
              /\ last.ret[i].userDataA = ActorOf(last.ret[i].idA)
              /\ last.ret[i].userDataB = ActorOf(last.ret[i].idB)
        /\ \A i \in 1 .. Len(last.ret) - 1 :
              \/ last.ret[i].idA < last.ret[i + 1].idA
              \/ /\ last.ret[i].idA = last.ret[i + 1].idA
                 /\ last.ret[i].idB < last.ret[i + 1].idB

\* a call that reported pairs sharing their smaller id, told apart by the larger
C6_Witness ==
    /\ last.op = "updatePairs"
    /\ Len(last.ret) >= 3
    /\ last.ret[1].idA = last.ret[2].idA
    /\ last.ret[2].idA < last.ret[3].idA

----------------------------------------------------------------------------
(* World: bodies own fixtures and edge lists, contacts and joints own their
   edges.  World.ts, Body.ts, Fixture.ts, Contact.ts and Joint.ts are not among
   the sources; this section follows spec.md, sections 3, 4.6 and 4.9.        *)

BodyIds == 1 .. MaxBodies
FixtureIds == 1 .. MaxFixtures
ContactIds == 1 .. MaxContacts
JointIds == 1 .. MaxJoints

\* no body, no fixture
None == 0

NoContact == [live |-> FALSE, fixtureA |-> None, fixtureB |-> None,
              bodyA |-> None, bodyB |-> None, touching |-> FALSE]

NoJoint == [live |-> FALSE, bodyA |-> None, bodyB |-> None]

\* new World(); a proxy in the world's broad phase is named by its fixture
EmptyWorld ==
    [ bodies       |-> {},
      fixtureBody  |-> [f \in FixtureIds |-> None],
      proxies      |-> {},
      contacts     |-> [c \in ContactIds |-> NoContact],
      joints       |-> [j \in JointIds |-> NoJoint],
      contactEdges |-> [b \in BodyIds |-> <<>>],
      jointEdges   |-> [b \in BodyIds |-> <<>>] ]

\* the least element of a non-empty set of numbers
Least(S) == CHOOSE x \in S : \A y \in S : x <= y

FixturesOf(W, b) == { f \in FixtureIds : W.fixtureBody[f] = b }
LiveFixtures(W) == { f \in FixtureIds : W.fixtureBody[f] # None }
LiveContacts(W) == { c \in ContactIds : W.contacts[c].live }
LiveJoints(W) == { j \in JointIds : W.joints[j].live }

\* world.createBody()
World_createBody(W) ==
    [W EXCEPT !.bodies = @ \cup {Least(BodyIds \ W.bodies)}]

\* body.createFixture(shape): the fixture joins the body and registers its proxy
Body_createFixture(W, b) ==
    LET f == Least(FixtureIds \ LiveFixtures(W))
    IN  [W EXCEPT !.fixtureBody[f] = b, !.proxies = @ \cup {f}]

\* fixture.destroyProxies(broadPhase)
Fixture_destroyProxies(W, f) ==
    [W EXCEPT !.proxies = @ \ {f}]

\* the contact for a pair the broad phase found: the pair is put in canonical
\* order, the contact's two edges go to the head of its bodies' contact lists
Contact_create(W, f1, f2) ==
    LET c == Least(ContactIds \ LiveContacts(W))
        fA == math_min(f1, f2)
        fB == math_max(f1, f2)
        bA == W.fixtureBody[fA]
        bB == W.fixtureBody[fB]
    IN  [W EXCEPT !.contacts[c] = [live |-> TRUE, fixtureA |-> fA, fixtureB |-> fB,
                                   bodyA |-> bA, bodyB |-> bB, touching |-> FALSE],
                  !.contactEdges[bA] = <<[contact |-> c, other |-> bB]>> \o @,
                  !.contactEdges[bB] = <<[contact |-> c, other |-> bA]>> \o @]

BeginContact(c) == [type |-> "beginContact", contact |-> c]
EndContact(c) == [type |-> "endContact", contact |-> c]

\* contact.update(listener) once the manifold is evaluated: beginContact when
\* touching turns true, endContact when it turns false
Contact_update(W, c, nowTouching) ==
    LET wasTouching == W.contacts[c].touching
    IN  [ W      |-> [W EXCEPT !.contacts[c].touching = nowTouching],
          events |-> IF ~wasTouching /\ nowTouching THEN <<BeginContact(c)>>
                     ELSE IF wasTouching /\ ~nowTouching THEN <<EndContact(c)>>
                     ELSE <<>> ]

\* a destroy that tells the listener nothing
Contact_destroy_silent(W, c) ==
    LET k == W.contacts[c]
    IN  [ W      |-> [W EXCEPT !.contacts[c] = NoContact,
                               !.contactEdges[k.bodyA] = SelectSeq(@, LAMBDA e : e.contact # c),
                               !.contactEdges[k.bodyB] = SelectSeq(@, LAMBDA e : e.contact # c)],
          events |-> <<>> ]

\* the contact manager destroys a contact: the contact takes its edges out of
\* both bodies' lists, and a touching contact ends
Contact_destroy(W, c) ==
    LET k == W.contacts[c]
    IN  [ W      |-> [W EXCEPT !.contacts[c] = NoContact,
                               !.contactEdges[k.bodyA] = SelectSeq(@, LAMBDA e : e.contact # c),
                               !.contactEdges[k.bodyB] = SelectSeq(@, LAMBDA e : e.contact # c)],
          events |-> IF k.touching THEN <<EndContact(c)>> ELSE <<>> ]

\* world.createJoint(joint): the joint's two edges go to the head of its bodies'
\* joint lists
World_createJoint(W, bA, bB) ==
    LET j == Least(JointIds \ LiveJoints(W))
    IN  [W EXCEPT !.joints[j] = [live |-> TRUE, bodyA |-> bA, bodyB |-> bB],
                  !.jointEdges[bA] = <<[joint |-> j, other |-> bB]>> \o @,
                  !.jointEdges[bB] = <<[joint |-> j, other |-> bA]>> \o @]

\* a destroyJoint that leaves the edge in bodyB's list
World_destroyJoint_oneSided(W, j) ==
    LET k == W.joints[j]
    IN  [W EXCEPT !.joints[j] = NoJoint,
                  !.jointEdges[k.bodyA] = SelectSeq(@, LAMBDA e : e.joint # j)]

\* world.destroyJoint(joint): out of both bodies' joint lists
World_destroyJoint(W, j) ==
    LET k == W.joints[j]
    IN  [W EXCEPT !.joints[j] = NoJoint,
                  !.jointEdges[k.bodyA] = SelectSeq(@, LAMBDA e : e.joint # j),
                  !.jointEdges[k.bodyB] = SelectSeq(@, LAMBDA e : e.joint # j)]

Destroyed(kind, id) == [kind |-> kind, id |-> id]

\* destroyBody, first part: every fixture of b, its proxies unregistered.
\* st is the world so far with the listener calls and the objects destroyed.
RECURSIVE DestroyFixtures(_, _)
DestroyFixtures(st, b) ==
    IF FixturesOf(st.W, b) = {} THEN st
    ELSE LET f == Least(FixturesOf(st.W, b))
             W1 == Fixture_destroyProxies(st.W, f)
         IN  DestroyFixtures([st EXCEPT !.W = [W1 EXCEPT !.fixtureBody[f] = None],
                                        !.order = Append(@, Destroyed("fixture", f))], b)

\* destroyBody, second part: every contact on b's contact list, walked with the
\* next edge saved before the contact goes
RECURSIVE DestroyContacts(_, _)
DestroyContacts(st, edges) ==
    IF edges = <<>> THEN st
    ELSE LET c == Head(edges).contact
             r == Contact_destroy(st.W, c)
         IN  DestroyContacts([W |-> r.W, events |-> st.events \o r.events,
                              order |-> Append(st.order, Destroyed("contact", c))],
                             Tail(edges))

\* destroyBody, third part: every joint on b's joint list, walked the same way
RECURSIVE DestroyJoints(_, _)
DestroyJoints(st, edges) ==
    IF edges = <<>> THEN st
    ELSE LET j == Head(edges).joint
         IN  DestroyJoints([st EXCEPT !.W = World_destroyJoint(st.W, j),
                                      !.order = Append(@, Destroyed("joint", j))],
                           Tail(edges))

\* world.destroyBody(b): its fixtures, its contacts, its joints, then the body
World_destroyBody(W, b) ==
    LET s1 == DestroyFixtures([W |-> W, events |-> <<>>, order |-> <<>>], b)
        s2 == DestroyContacts(s1, s1.W.contactEdges[b])
        s3 == DestroyJoints(s2, s2.W.jointEdges[b])
    IN  [s3 EXCEPT !.W.bodies = @ \ {b}]

(* The listener, and the calls made on the world *)

NoWorldCall == [op |-> "none", body |-> None, joint |-> None, order |-> <<>>]

\* the listener takes the callbacks in turn: a contact begins when it is not
\* begun and ends when it is, anything else is out of turn
RECURSIVE Deliver(_, _)
Deliver(L, events) ==
    IF events = <<>> THEN L
    ELSE LET e == Head(events)
             c == e.contact
             inTurn == IF e.type = "beginContact" THEN c \notin L.begun ELSE c \in L.begun
         IN  Deliver([L EXCEPT !.begun = IF e.type = "beginContact" THEN @ \cup {c} ELSE @ \ {c},
                               !.outOfTurn = @ \/ ~inTurn,
                               !.calls = Append(@, e)],
                     Tail(events))

\* the listener's record after a call that made these callbacks
Heard(events) == Deliver([listener EXCEPT !.calls = <<>>], events)

InitWorld ==
    /\ world = EmptyWorld
    /\ listener = [calls |-> <<>>, begun |-> {}, outOfTurn |-> FALSE]
    /\ lastWorld = NoWorldCall

WorldStep == UNCHANGED exceptWorldVars

CreateBody ==
    /\ world.bodies # BodyIds
    /\ world' = World_createBody(world)
    /\ listener' = Heard(<<>>)
    /\ lastWorld' = NoWorldCall

CreateFixture(b) ==
    /\ b \in world.bodies
    /\ LiveFixtures(world) # FixtureIds
    /\ world' = Body_createFixture(world, b)
    /\ listener' = Heard(<<>>)
    /\ lastWorld' = NoWorldCall

\* the broad phase reports the proxies of two fixtures of different bodies that
\* have no contact yet
AddPair(f1, f2) ==
    /\ f1 < f2
    /\ {f1, f2} \subseteq LiveFixtures(world)
    /\ world.fixtureBody[f1] # world.fixtureBody[f2]
    /\ \A c \in LiveContacts(world) :
           {world.contacts[c].fixtureA, world.contacts[c].fixtureB} # {f1, f2}
    /\ LiveContacts(world) # ContactIds
    /\ world' = Contact_create(world, f2, f1)
    /\ listener' = Heard(<<>>)
    /\ lastWorld' = NoWorldCall

\* the narrow phase finds the contact touching or not
UpdateContact(c, nowTouching) ==
    /\ c \in LiveContacts(world)
    /\ LET r == Contact_update(world, c, nowTouching)
       IN  /\ world' = r.W
           /\ listener' = Heard(r.events)
    /\ lastWorld' = NoWorldCall

\* the proxies of the contact's fixtures have stopped overlapping
DestroyContact(c) ==
    /\ c \in LiveContacts(world)
    /\ LET r == Contact_destroy(world, c)
       IN  /\ world' = r.W
           /\ listener' = Heard(r.events)
    /\ lastWorld' = NoWorldCall

CreateJoint(bA, bB) ==
    /\ bA < bB
    /\ {bA, bB} \subseteq world.bodies
    /\ LiveJoints(world) # JointIds
    /\ world' = World_createJoint(world, bA, bB)
    /\ listener' = Heard(<<>>)
    /\ lastWorld' = NoWorldCall

DestroyJoint(j) ==
    /\ j \in LiveJoints(world)
    /\ world' = World_destroyJoint(world, j)
    /\ listener' = Heard(<<>>)
    /\ lastWorld' = [NoWorldCall EXCEPT !.op = "destroyJoint", !.joint = j]

DestroyBody(b) ==
    /\ b \in world.bodies
    /\ LET r == World_destroyBody(world, b)
       IN  /\ world' = r.W
           /\ listener' = Heard(r.events)
           /\ lastWorld' = [NoWorldCall EXCEPT !.op = "destroyBody", !.body = b,
                                               !.order = r.order]

NextWorld ==
    \/ WorldStep /\ CreateBody
    \/ \E b \in BodyIds : WorldStep /\ CreateFixture(b)
    \/ \E f1, f2 \in FixtureIds : WorldStep /\ AddPair(f1, f2)
    \/ \E c \in ContactIds, t \in BOOLEAN : WorldStep /\ UpdateContact(c, t)
    \/ \E c \in ContactIds : WorldStep /\ DestroyContact(c)
    \/ \E bA, bB \in BodyIds : WorldStep /\ CreateJoint(bA, bB)
    \/ \E j \in JointIds : WorldStep /\ DestroyJoint(j)
    \/ \E b \in BodyIds : WorldStep /\ DestroyBody(b)

(* Properties of the world *)

\* the contact exists and is touching
Touching(W, c) == W.contacts[c].live /\ W.contacts[c].touching

\* how many times the listener was called with e in the last call
Times(calls, e) == Cardinality({ i \in 1 .. Len(calls) : calls[i] = e })

EventStep ==
    \A c \in ContactIds :
        /\ Times(listener'.calls, BeginContact(c)) =
               IF ~Touching(world, c) /\ Touching(world', c) THEN 1 ELSE 0
        /\ Times(listener'.calls, EndContact(c)) =
               IF Touching(world, c) /\ ~Touching(world', c) THEN 1 ELSE 0

InTurn ==
    /\ ~listener.outOfTurn
    /\ listener.begun = { c \in ContactIds : Touching(world, c) }

\* C7: per contact, beginContact and endContact alternate, starting with
\* beginContact: beginContact comes exactly when touching turns from false to
\* true, endContact exactly when it turns from true to false, and a contact
\* destroyed while touching gets a last endContact, so no destroyed contact is
\* left with a beginContact that has no endContact.
C7_ContactEvents == [][EventStep /\ InTurn']_vars

\* a body is destroyed: its touching contact ends, another contact stays begun
C7_Witness ==
    /\ lastWorld.op = "destroyBody"
    /\ \E c \in ContactIds : listener.calls = <<EndContact(c)>> /\ ~world.contacts[c].live
    /\ \E c \in ContactIds : Touching(world, c) /\ c \in listener.begun

Rank(kind) == IF kind = "fixture" THEN 1 ELSE IF kind = "contact" THEN 2 ELSE 3

\* the ids of this kind among the objects destroyed
OfKind(order, kind) == { order[i].id : i \in { k \in 1 .. Len(order) : order[k].kind = kind } }

ContactsOn(W, b) ==
    { c \in LiveContacts(W) : b \in {W.contacts[c].bodyA, W.contacts[c].bodyB} }
JointsOn(W, b) ==
    { j \in LiveJoints(W) : b \in {W.joints[j].bodyA, W.joints[j].bodyB} }

\* nothing in W names body b or a fixture in fs
Forgotten(W, b, fs) ==
    /\ b \notin W.bodies
    /\ \A f \in fs : W.fixtureBody[f] = None
    /\ W.proxies \cap fs = {}
    /\ \A c \in LiveContacts(W) :
           /\ W.contacts[c].fixtureA \notin fs /\ W.contacts[c].fixtureB \notin fs
           /\ W.contacts[c].bodyA # b /\ W.contacts[c].bodyB # b
    /\ \A j \in LiveJoints(W) : W.joints[j].bodyA # b /\ W.joints[j].bodyB # b
    /\ W.contactEdges[b] = <<>> /\ W.jointEdges[b] = <<>>
    /\ \A o \in BodyIds :
           /\ \A i \in 1 .. Len(W.contactEdges[o]) :
                  /\ W.contactEdges[o][i].other # b
                  /\ W.contactEdges[o][i].contact \in LiveContacts(W)
           /\ \A i \in 1 .. Len(W.jointEdges[o]) :
                  /\ W.jointEdges[o][i].other # b
                  /\ W.jointEdges[o][i].joint \in LiveJoints(W)

DestroyBodyStep ==
    lastWorld'.op = "destroyBody" =>
        LET b == lastWorld'.body
            order == lastWorld'.order
        IN  /\ \A i, k \in 1 .. Len(order) : i < k => Rank(order[i].kind) <= Rank(order[k].kind)
            /\ OfKind(order, "fixture") = FixturesOf(world, b)
            /\ OfKind(order, "contact") = ContactsOn(world, b)
            /\ OfKind(order, "joint") = JointsOn(world, b)
            /\ Len(order) = Cardinality(FixturesOf(world, b)) + Cardinality(ContactsOn(world, b))
                              + Cardinality(JointsOn(world, b))
            /\ Forgotten(world', b, FixturesOf(world, b))

DestroyJointStep ==
    lastWorld'.op = "destroyJoint" =>
        LET j == lastWorld'.joint
        IN  /\ ~world'.joints[j].live
            /\ \A o \in BodyIds :
                   world'.jointEdges[o] = SelectSeq(world.jointEdges[o], LAMBDA e : e.joint # j)
            /\ \A o \in {world.joints[j].bodyA, world.joints[j].bodyB} :
                   \A i \in 1 .. Len(world'.jointEdges[o]) : world'.jointEdges[o][i].joint # j

\* C8: destroyBody(b) destroys b's fixtures (their proxies unregistered), then
\* b's contacts, then b's joints; afterwards no live proxy, contact or joint
\* names b or a fixture of b, and no other body's contact or joint list holds
\* an edge to b.  destroyJoint(j) takes j out of both bodies' joint lists.
C8_DestroyCascade == [][DestroyBodyStep /\ DestroyJointStep]_vars

\* a body with a fixture, a contact and a joint is destroyed, and a contact and
\* a joint between other bodies stay
C8_Witness ==
    /\ lastWorld.op = "destroyBody"
    /\ { lastWorld.order[i].kind : i \in 1 .. Len(lastWorld.order) } = {"fixture", "contact", "joint"}
    /\ LiveContacts(world) # {}
    /\ LiveJoints(world) # {}

----------------------------------------------------------------------------
(* Mat22 and Mat33 products.  A JavaScript value is a record with its kind; an
   array or an object carries its properties, an array's being its indices.  *)

Undefined == [kind |-> "undefined"]
Null == [kind |-> "null"]
NaN == [kind |-> "NaN"]
Num(n) == [kind |-> "number", val |-> n]

\* the array [x, y]
Array2(x, y) ==
    [kind |-> "array", props |-> [k \in {"0", "1"} |-> IF k = "0" THEN x ELSE y]]

\* the array [x, y, z]
Array3(x, y, z) ==
    [kind |-> "array",
     props |-> [k \in {"0", "1", "2"} |-> IF k = "0" THEN x ELSE IF k = "1" THEN y ELSE z]]

\* the object {x, y} and the object {x, y, z}
ObjectXY(x, y) ==
    [kind |-> "object", props |-> [k \in {"x", "y"} |-> IF k = "x" THEN x ELSE y]]
ObjectXYZ(x, y, z) ==
    [kind |-> "object",
     props |-> [k \in {"x", "y", "z"} |-> IF k = "x" THEN x ELSE IF k = "y" THEN y ELSE z]]

\* v as a condition: an array or an object is true, undefined is not
Truthy(v) == v.kind \in {"array", "object", "Mat22", "Mat33"}

\* key in v
In(key, v) == key \in DOMAIN v.props

\* v.key and v[key]: undefined when v has no such property
Get(v, key) == IF "props" \in DOMAIN v /\ key \in DOMAIN v.props THEN v.props[key] ELSE Undefined

\* a * b and a + b: undefined and NaN give NaN
Times2(a, b) ==
    IF a.kind = "number" /\ b.kind = "number" THEN Num(a.val * b.val) ELSE NaN
Plus2(a, b) ==
    IF a.kind = "number" /\ b.kind = "number" THEN Num(a.val + b.val) ELSE NaN
Plus3(a, b, c) == Plus2(Plus2(a, b), c)

\* a parameter with default 0
OrZero(x) == IF x = Undefined THEN Num(0) ELSE x

\* Vec2.create(x, y), Vec3.create(x, y, z) on JavaScript numbers
Vec2_createJS(x, y) == Array2(OrZero(x), OrZero(y))
Vec3_createJS(x, y, z) == Array3(OrZero(x), OrZero(y), OrZero(z))

\* Vec2.dot(v, w)
Vec2_dotJS(v, w) ==
    Plus2(Times2(Get(v, "0"), Get(w, "0")), Times2(Get(v, "1"), Get(w, "1")))

\* new Mat22(a, b, c, d) with numbers
Mat22_new(a, b, c, d) ==
    [kind |-> "Mat22",
     props |-> [k \in {"ex", "ey"} |->
                    IF k = "ex" THEN Vec2_createJS(a, c) ELSE Vec2_createJS(b, d)]]

\* new Mat33(a, b, c) with three columns
Mat33_new(a, b, c) ==
    [kind |-> "Mat33",
     props |-> [k \in {"ex", "ey", "ez"} |->
                    LET col == IF k = "ex" THEN a ELSE IF k = "ey" THEN b ELSE c
                    IN  Vec3_createJS(Get(col, "0"), Get(col, "1"), Get(col, "2"))]]

\* Mat22.mul(mx, v)
Mat22_mul(mx, v) ==
    IF Truthy(v) /\ In("x", v) /\ In("y", v) THEN
        LET x == Plus2(Times2(Get(Get(mx, "ex"), "x"), Get(v, "x")),
                       Times2(Get(Get(mx, "ey"), "x"), Get(v, "y")))
            y == Plus2(Times2(Get(Get(mx, "ex"), "y"), Get(v, "x")),
                       Times2(Get(Get(mx, "ey"), "y"), Get(v, "y")))
        IN  Vec2_createJS(x, y)
    ELSE IF Truthy(v) /\ In("ex", v) /\ In("ey", v) THEN
        LET a == Plus2(Times2(Get(Get(mx, "ex"), "x"), Get(Get(v, "ex"), "x")),
                       Times2(Get(Get(mx, "ey"), "x"), Get(Get(v, "ex"), "y")))
            b == Plus2(Times2(Get(Get(mx, "ex"), "x"), Get(Get(v, "ey"), "x")),
                       Times2(Get(Get(mx, "ey"), "x"), Get(Get(v, "ey"), "y")))
            c == Plus2(Times2(Get(Get(mx, "ex"), "y"), Get(Get(v, "ex"), "x")),
                       Times2(Get(Get(mx, "ey"), "y"), Get(Get(v, "ex"), "y")))
            d == Plus2(Times2(Get(Get(mx, "ex"), "y"), Get(Get(v, "ey"), "x")),
                       Times2(Get(Get(mx, "ey"), "y"), Get(Get(v, "ey"), "y")))
        IN  Mat22_new(a, b, c, d)
    ELSE Undefined

\* Mat22.mulVec2(mx, v)
Mat22_mulVec2(mx, v) ==
    LET x == Plus2(Times2(Get(Get(mx, "ex"), "0"), Get(v, "0")),
                   Times2(Get(Get(mx, "ey"), "0"), Get(v, "1")))
        y == Plus2(Times2(Get(Get(mx, "ex"), "1"), Get(v, "0")),
                   Times2(Get(Get(mx, "ey"), "1"), Get(v, "1")))
    IN  Vec2_createJS(x, y)

\* Mat22.mulT(mx, v)
Mat22_mulT(mx, v) ==
    IF Truthy(v) /\ In("x", v) /\ In("y", v) THEN
        Vec2_createJS(Vec2_dotJS(v, Get(mx, "ex")), Vec2_dotJS(v, Get(mx, "ey")))
    ELSE IF Truthy(v) /\ In("ex", v) /\ In("ey", v) THEN
        LET c1 == Vec2_createJS(Vec2_dotJS(Get(mx, "ex"), Get(v, "ex")),
                                Vec2_dotJS(Get(mx, "ey"), Get(v, "ex")))
            c2 == Vec2_createJS(Vec2_dotJS(Get(mx, "ex"), Get(v, "ey")),
                                Vec2_dotJS(Get(mx, "ey"), Get(v, "ey")))
        IN  [kind |-> "Mat22", props |-> [k \in {"ex", "ey"} |-> IF k = "ex" THEN c1 ELSE c2]]
    ELSE Undefined

\* Mat22.mulTVec2(mx, v)
Mat22_mulTVec2(mx, v) ==
    Vec2_createJS(Vec2_dotJS(v, Get(mx, "ex")), Vec2_dotJS(v, Get(mx, "ey")))

\* Mat33.mul(a, b)
Mat33_mul(a, b) ==
    IF Truthy(b) /\ In("z", b) /\ In("y", b) /\ In("x", b) THEN
        LET x == Plus3(Times2(Get(Get(a, "ex"), "x"), Get(b, "x")),
                       Times2(Get(Get(a, "ey"), "x"), Get(b, "y")),
                       Times2(Get(Get(a, "ez"), "x"), Get(b, "z")))
            y == Plus3(Times2(Get(Get(a, "ex"), "y"), Get(b, "x")),
                       Times2(Get(Get(a, "ey"), "y"), Get(b, "y")),
                       Times2(Get(Get(a, "ez"), "y"), Get(b, "z")))
            z == Plus3(Times2(Get(Get(a, "ex"), "z"), Get(b, "x")),
                       Times2(Get(Get(a, "ey"), "z"), Get(b, "y")),
                       Times2(Get(Get(a, "ez"), "z"), Get(b, "z")))
        IN  Vec3_createJS(x, y, z)
    ELSE IF Truthy(b) /\ In("y", b) /\ In("x", b) THEN
        LET x == Plus2(Times2(Get(Get(a, "ex"), "x"), Get(b, "x")),
                       Times2(Get(Get(a, "ey"), "x"), Get(b, "y")))
            y == Plus2(Times2(Get(Get(a, "ex"), "y"), Get(b, "x")),
                       Times2(Get(Get(a, "ey"), "y"), Get(b, "y")))
        IN  Vec2_createJS(x, y)
    ELSE Undefined

\* Mat33.mulVec3(a, b)
Mat33_mulVec3(a, b) ==
    LET x == Plus3(Times2(Get(Get(a, "ex"), "0"), Get(b, "0")),
                   Times2(Get(Get(a, "ey"), "0"), Get(b, "1")),
                   Times2(Get(Get(a, "ez"), "0"), Get(b, "2")))
        y == Plus3(Times2(Get(Get(a, "ex"), "1"), Get(b, "0")),
                   Times2(Get(Get(a, "ey"), "1"), Get(b, "1")),
                   Times2(Get(Get(a, "ez"), "1"), Get(b, "2")))
        z == Plus3(Times2(Get(Get(a, "ex"), "2"), Get(b, "0")),
                   Times2(Get(Get(a, "ey"), "2"), Get(b, "1")),
                   Times2(Get(Get(a, "ez"), "2"), Get(b, "2")))
    IN  Vec3_createJS(x, y, z)

\* Mat33.mulVec2(a, b)
Mat33_mulVec2(a, b) ==
    LET x == Plus2(Times2(Get(Get(a, "ex"), "0"), Get(b, "0")),
                   Times2(Get(Get(a, "ey"), "0"), Get(b, "1")))
        y == Plus2(Times2(Get(Get(a, "ex"), "1"), Get(b, "0")),
                   Times2(Get(Get(a, "ey"), "1"), Get(b, "1")))
    IN  Vec2_createJS(x, y)

(* The products taken: the matrices and operands are drawn at the start *)

Mat22s ==
    { Mat22_new(Num(1), Num(2), Num(3), Num(4)),
      Mat22_new(Num(1), Num(0), Num(0), Num(1)),
      Mat22_new(Num(0), Num(-1), Num(1), Num(0)) }

\* ordered pairs, and a vector in the object form
Operands2 ==
    { Array2(Num(1), Num(1)), Array2(Num(2), Num(-3)), Array2(Num(0), Num(0)),
      ObjectXY(Num(1), Num(2)) }

Mat33s ==
    { Mat33_new(Array3(Num(1), Num(0), Num(0)), Array3(Num(0), Num(1), Num(0)),
                Array3(Num(0), Num(0), Num(1))),
      Mat33_new(Array3(Num(1), Num(2), Num(3)), Array3(Num(4), Num(5), Num(6)),
                Array3(Num(7), Num(8), Num(10))) }

\* ordered pairs and triples, and a vector in the object form
Operands3 ==
    { Array2(Num(1), Num(-1)), Array3(Num(1), Num(2), Num(3)), Array3(Num(0), Num(1), Num(-1)),
      ObjectXYZ(Num(1), Num(2), Num(3)) }

NoProduct == [op |-> "none", arg |-> Undefined, overloaded |-> Undefined, typed |-> Undefined]

MatIdle ==
    mat = [mx |-> Mat22_new(Num(1), Num(0), Num(0), Num(1)), v |-> Array2(Num(0), Num(0)),
           a |-> Mat33_new(Array3(Num(1), Num(0), Num(0)), Array3(Num(0), Num(1), Num(0)),
                           Array3(Num(0), Num(0), Num(1))),
           b |-> Array2(Num(1), Num(-1)), call |-> NoProduct]

InitMat ==
    mat \in { [mx |-> mx, v |-> v, a |-> a, b |-> b, call |-> NoProduct] :
                  mx \in Mat22s, v \in Operands2, a \in Mat33s, b \in Operands3 }

MatStep ==
    /\ mat.call.op = "none"
    /\ UNCHANGED exceptMatVars

\* Mat22.mul(mx, v) beside Mat22.mulVec2(mx, v)
Mat22Mul ==
    mat' = [mat EXCEPT !.call = [op |-> "Mat22.mul", arg |-> mat.v,
                                 overloaded |-> Mat22_mul(mat.mx, mat.v),
                                 typed |-> Mat22_mulVec2(mat.mx, mat.v)]]

\* Mat22.mulT(mx, v) beside Mat22.mulTVec2(mx, v)
Mat22MulT ==
    mat' = [mat EXCEPT !.call = [op |-> "Mat22.mulT", arg |-> mat.v,
                                 overloaded |-> Mat22_mulT(mat.mx, mat.v),
                                 typed |-> Mat22_mulTVec2(mat.mx, mat.v)]]

\* Mat33.mul(a, b) beside Mat33.mulVec3(a, b) for a triple, Mat33.mulVec2(a, b)
\* for a pair
Mat33Mul ==
    mat' = [mat EXCEPT !.call = [op |-> "Mat33.mul", arg |-> mat.b,
                                 overloaded |-> Mat33_mul(mat.a, mat.b),
                                 typed |-> IF In("2", mat.b) \/ In("z", mat.b)
                                           THEN Mat33_mulVec3(mat.a, mat.b)
                                           ELSE Mat33_mulVec2(mat.a, mat.b)]]

NextMat ==
    \/ MatStep /\ Mat22Mul
    \/ MatStep /\ Mat22MulT
    \/ MatStep /\ Mat33Mul

\* C9: given an ordered pair (or triple) as an array, Mat22.mul, Mat22.mulT and
\* Mat33.mul return the same vector as Mat22.mulVec2, Mat22.mulTVec2 and
\* Mat33.mulVec2 / Mat33.mulVec3.
C9_OverloadsAgree ==
    (mat.call.op # "none" /\ mat.call.arg.kind = "array") =>
        mat.call.overloaded = mat.call.typed

----------------------------------------------------------------------------
(* Vec2 on arrays in memory.  An array is known by its reference; a number is
   an exact fraction n/d in lowest terms, so rounding is left out.           *)

Abs(n) == IF n < 0 THEN -n ELSE n

RECURSIVE GCD(_, _)
GCD(a, b) == IF b = 0 THEN a ELSE GCD(b, a % b)

\* n/d in lowest terms, d # 0
Frac(n, d) ==
    LET g == GCD(Abs(n), Abs(d))
    IN  [n |-> (IF d < 0 THEN -n ELSE n) \div g, d |-> Abs(d) \div g]

Q(n) == [n |-> n, d |-> 1]

QAdd(p, q) == Frac(p.n * q.d + q.n * p.d, p.d * q.d)
QSub(p, q) == Frac(p.n * q.d - q.n * p.d, p.d * q.d)
QMul(p, q) == Frac(p.n * q.n, p.d * q.d)
QDiv(p, q) == Frac(p.n * q.d, p.d * q.n)
QNeg(p) == [n |-> -p.n, d |-> p.d]
QGreater(p, q) == p.n * q.d > q.n * p.d

\* Math.sqrt, for the squares of fractions
math_sqrt(q) ==
    Frac(CHOOSE r \in 0 .. q.n : r * r = q.n, CHOOSE r \in 1 .. q.d : r * r = q.d)

\* len < EPSILON: EPSILON is a small positive number, and the lengths taken here
\* are 0 or at least 1
BelowEpsilon(len) == len.n = 0

Refs == 1 .. 4

\* no array at this reference yet
NoArray == <<>>

\* the out parameter left out
NoOut == 0

\* Vec2.create(x, y): a new array
Vec2_createIn(H, x, y) ==
    LET r == Least({ k \in Refs : H[k] = NoArray })
    IN  [H |-> [H EXCEPT ![r] = <<x, y>>], ret |-> r]

\* out: Vec2Value = create()
DefaultOut(H, out) == IF out = NoOut THEN Vec2_createIn(H, Q(0), Q(0)) ELSE [H |-> H, ret |-> out]

\* Vec2.set(x, y, out)
Vec2_set(H, x, y, out) == [H |-> [H EXCEPT ![out] = <<x, y>>], ret |-> out]

\* Vec2.copy(v, out): out[0] = v[0], then out[1] = v[1]
Vec2_copy(H, v, out) ==
    LET H1 == [H EXCEPT ![out][1] = H[v][1]]
        H2 == [H1 EXCEPT ![out][2] = H1[v][2]]
    IN  [H |-> H2, ret |-> out]

\* Vec2.scale(v, a, out)
Vec2_scale(H, v, a, out) ==
    LET o == DefaultOut(H, out)
        x == QMul(a, o.H[v][1])
        y == QMul(a, o.H[v][2])
    IN  Vec2_set(o.H, x, y, o.ret)

\* Vec2.addMul(src, a, v, out)
Vec2_addMul(H, src, a, v, out) ==
    LET o == DefaultOut(H, out)
        x == QMul(a, o.H[v][1])
        y == QMul(a, o.H[v][2])
    IN  Vec2_set(o.H, QAdd(o.H[src][1], x), QAdd(o.H[src][2], y), o.ret)

\* Vec2.subMul(src, a, v, out)
Vec2_subMul(H, src, a, v, out) ==
    LET o == DefaultOut(H, out)
        x == QMul(a, o.H[v][1])
        y == QMul(a, o.H[v][2])
    IN  Vec2_set(o.H, QSub(o.H[src][1], x), QSub(o.H[src][2], y), o.ret)

\* Vec2.length(v)
Vec2_length(H, v) == math_sqrt(QAdd(QMul(H[v][1], H[v][1]), QMul(H[v][2], H[v][2])))

\* Vec2.normalize(v, out): returns the length
Vec2_normalize(H, v, out) ==
    LET o == DefaultOut(H, out)
        len == Vec2_length(o.H, v)
    IN  IF BelowEpsilon(len) THEN [H |-> o.H, ret |-> Q(0)]
        ELSE LET invLength == QDiv(Q(1), len)
             IN  [H |-> Vec2_set(o.H, QMul(o.H[v][1], invLength),
                                 QMul(o.H[v][2], invLength), o.ret).H,
                  ret |-> len]

\* a skew that writes out[0] and then reads v[0]
Vec2_skew_inPlace(H, v, out) ==
    LET o == DefaultOut(H, out)
        H1 == [o.H EXCEPT ![o.ret][1] = QNeg(o.H[v][2])]
        H2 == [H1 EXCEPT ![o.ret][2] = H1[v][1]]
    IN  [H |-> H2, ret |-> o.ret]

\* Vec2.skew(v, out)
Vec2_skew(H, v, out) ==
    LET o == DefaultOut(H, out)
    IN  Vec2_set(o.H, QNeg(o.H[v][2]), o.H[v][1], o.ret)

\* Vec2.crossVec2Num(v, w, out)
Vec2_crossVec2Num(H, v, w, out) ==
    LET o == DefaultOut(H, out)
    IN  Vec2_set(o.H, QMul(w, o.H[v][2]), QMul(QNeg(w), o.H[v][1]), o.ret)

\* Vec2.crossNumVec2(v, w, out)
Vec2_crossNumVec2(H, v, w, out) ==
    LET o == DefaultOut(H, out)
    IN  Vec2_set(o.H, QMul(QNeg(v), o.H[w][2]), QMul(v, o.H[w][1]), o.ret)

\* Vec2.add(v, w, out)
Vec2_add(H, v, w, out) ==
    LET o == DefaultOut(H, out)
    IN  Vec2_set(o.H, QAdd(o.H[v][1], o.H[w][1]), QAdd(o.H[v][2], o.H[w][2]), o.ret)

\* Vec2.combine(a, v, b, w, out)
Vec2_combine(H, a, v, b, w, out) ==
    LET o == DefaultOut(H, out)
        x == QAdd(QMul(a, o.H[v][1]), QMul(b, o.H[w][1]))
        y == QAdd(QMul(a, o.H[v][2]), QMul(b, o.H[w][2]))
    IN  Vec2_set(o.H, x, y, o.ret)

\* Vec2.sub(v, w, out)
Vec2_sub(H, v, w, out) ==
    LET o == DefaultOut(H, out)
    IN  Vec2_set(o.H, QSub(o.H[v][1], o.H[w][1]), QSub(o.H[v][2], o.H[w][2]), o.ret)

\* Vec2.neg(v, out)
Vec2_neg(H, v, out) ==
    LET o == DefaultOut(H, out)
    IN  Vec2_set(o.H, QNeg(o.H[v][1]), QNeg(o.H[v][2]), o.ret)

\* Vec2.clamp(v, max, out)
Vec2_clamp(H, v, max, out) ==
    LET o == DefaultOut(H, out)
        lengthSqr == QAdd(QMul(o.H[v][1], o.H[v][1]), QMul(o.H[v][2], o.H[v][2]))
    IN  IF QGreater(lengthSqr, QMul(max, max))
        THEN LET scale == QDiv(max, math_sqrt(lengthSqr))
             IN  Vec2_set(o.H, QMul(o.H[v][1], scale), QMul(o.H[v][2], scale), o.ret)
        ELSE Vec2_copy(o.H, v, o.ret)

(* The Vec2 calls made: two vectors and two numbers are drawn at the start;
   v and w may be the same array, and out may be left out, be v, be w, or be
   a third array                                                             *)

QPair(x, y) == <<Q(x), Q(y)>>

Vec2Inputs == { QPair(0, 0), QPair(3, 4), QPair(-4, 3), QPair(0, 2) }

Scalars == { Q(-1), Q(2), Q(3) }

\* arrays 1 and 2 hold the vectors, array 3 is one more array
Memory(p, q) ==
    [r \in Refs |-> IF r = 1 THEN p ELSE IF r = 2 THEN q ELSE IF r = 3 THEN QPair(7, 7)
                    ELSE NoArray]

NoVecCall == [op |-> "none", v |-> 1, w |-> 1, out |-> NoOut, ret |-> NoOut]

VecStart(p, q, a, b) ==
    [in |-> Memory(p, q), a |-> a, b |-> b, heap |-> Memory(p, q), call |-> NoVecCall]

VecIdle == vec = VecStart(QPair(0, 0), QPair(0, 0), Q(2), Q(1))

InitVec == vec \in { VecStart(p, q, a, b) : p \in Vec2Inputs, q \in Vec2Inputs,
                                           a \in Scalars, b \in Scalars }

Args == {1, 2}
Outs == {NoOut, 1, 2, 3}

VecStep ==
    /\ vec.call.op = "none"
    /\ UNCHANGED exceptVecVars

\* the call op(v, w, out) is made, with vec.a and vec.b for its numbers: memory
\* and the returned value after it
Called(op, v, w, out, r) ==
    vec' = [vec EXCEPT !.heap = r.H,
                       !.call = [op |-> op, v |-> v, w |-> w, out |-> out, ret |-> r.ret]]

NextVec ==
    \/ \E v \in Args, w \in Args, out \in Outs :
           VecStep /\ Called("add", v, w, out, Vec2_add(vec.heap, v, w, out))
    \/ \E v \in Args, w \in Args, out \in Outs :
           VecStep /\ Called("sub", v, w, out, Vec2_sub(vec.heap, v, w, out))
    \/ \E v \in Args, out \in Outs :
           VecStep /\ Called("scale", v, v, out, Vec2_scale(vec.heap, v, vec.a, out))
    \/ \E v \in Args, out \in Outs :
           VecStep /\ Called("neg", v, v, out, Vec2_neg(vec.heap, v, out))
    \/ \E v \in Args, out \in Outs :
           VecStep /\ Called("skew", v, v, out, Vec2_skew(vec.heap, v, out))
    \/ \E v \in Args, w \in Args, out \in Outs :
           VecStep /\ Called("combine", v, w, out,
                             Vec2_combine(vec.heap, vec.a, v, vec.b, w, out))
    \/ \E v \in Args, w \in Args, out \in Outs :
           VecStep /\ Called("addMul", v, w, out, Vec2_addMul(vec.heap, v, vec.a, w, out))
    \/ \E v \in Args, w \in Args, out \in Outs :
           VecStep /\ Called("subMul", v, w, out, Vec2_subMul(vec.heap, v, vec.a, w, out))
    \/ \E v \in Args, out \in Outs :
           VecStep /\ Called("crossVec2Num", v, v, out,
                             Vec2_crossVec2Num(vec.heap, v, vec.a, out))
    \/ \E v \in Args, out \in Outs :
           VecStep /\ Called("crossNumVec2", v, v, out,
                             Vec2_crossNumVec2(vec.heap, vec.a, v, out))
    \/ \E v \in Args, out \in Outs :
           VecStep /\ Called("clamp", v, v, out, Vec2_clamp(vec.heap, v, vec.a, out))
    \/ \E v \in Args, out \in Outs :
           VecStep /\ Called("normalize", v, v, out, Vec2_normalize(vec.heap, v, out))

(* Properties of the Vec2 calls *)

\* the length of a pair whose squared length is a square
Norm(p) == math_sqrt(QAdd(QMul(p[1], p[1]), QMul(p[2], p[2])))

\* what the call has to produce from the vectors V and W that were in the
\* arguments when it was made
Value(op, V, W, a, b) ==
    CASE op = "add" -> <<QAdd(V[1], W[1]), QAdd(V[2], W[2])>>
      [] op = "sub" -> <<QSub(V[1], W[1]), QSub(V[2], W[2])>>
      [] op = "scale" -> <<QMul(a, V[1]), QMul(a, V[2])>>
      [] op = "neg" -> <<QNeg(V[1]), QNeg(V[2])>>
      [] op = "skew" -> <<QNeg(V[2]), V[1]>>
      [] op = "combine" -> <<QAdd(QMul(a, V[1]), QMul(b, W[1])), QAdd(QMul(a, V[2]), QMul(b, W[2]))>>
      [] op = "addMul" -> <<QAdd(V[1], QMul(a, W[1])), QAdd(V[2], QMul(a, W[2]))>>
      [] op = "subMul" -> <<QSub(V[1], QMul(a, W[1])), QSub(V[2], QMul(a, W[2]))>>
      [] op = "crossVec2Num" -> <<QMul(a, V[2]), QNeg(QMul(a, V[1]))>>
      [] op = "crossNumVec2" -> <<QNeg(QMul(a, V[2])), QMul(a, V[1])>>
      [] op = "clamp" -> IF QGreater(QMul(Norm(V), Norm(V)), QMul(a, a))
                         THEN <<QDiv(QMul(V[1], a), Norm(V)), QDiv(QMul(V[2], a), Norm(V))>>
                         ELSE V
      [] op = "normalize" -> <<QDiv(V[1], Norm(V)), QDiv(V[2], Norm(V))>>

\* the arrays the call made
Fresh == { r \in Refs : vec.in[r] = NoArray /\ vec.heap[r] # NoArray }

\* C10: a Vec2 operation called without out returns a new pair and leaves every
\* argument as it was; called with out it changes no array but out and returns
\* out; the pair it produces is computed from the values the arguments had when
\* the call was made, also when out is one of the arguments.  (normalize
\* returns the length, and writes nothing for a vector of length zero.)
C10_NoHiddenIdentity ==
    vec.call.op # "none" =>
        LET c == vec.call
            V == vec.in[c.v]
            W == vec.in[c.w]
            dest == IF c.out = NoOut THEN CHOOSE r \in Fresh : TRUE ELSE c.out
        IN  /\ Cardinality(Fresh) = IF c.out = NoOut THEN 1 ELSE 0
            /\ \A r \in Refs \ {dest} : vec.heap[r] = vec.in[r]
            /\ c.op # "normalize" =>
                   /\ c.ret = dest
                   /\ vec.heap[dest] = Value(c.op, V, W, vec.a, vec.b)
            /\ c.op = "normalize" =>
                   /\ c.ret = Norm(V)
                   /\ Norm(V) # Q(0) => vec.heap[dest] = Value(c.op, V, W, vec.a, vec.b)
                   /\ (Norm(V) = Q(0) /\ c.out # NoOut) => vec.heap[dest] = vec.in[dest]

\* skew is called with out the argument itself, on a vector whose two
\* coordinates differ and are not zero
C10_Witness ==
    /\ vec.call.op = "skew"
    /\ vec.call.out = vec.call.v
    /\ vec.in[vec.call.v] = QPair(3, 4)
    /\ vec.heap[vec.call.v] = QPair(-4, 3)

----------------------------------------------------------------------------
(* The matrix utility module  (src/src/common/Matrix.ts), on the same arrays *)

\* addVec2(out, v, w): out[0] is written, then out[1]
Matrix_addVec2(H, out, v, w) ==
    LET H1 == [H EXCEPT ![out][1] = QAdd(H[v][1], H[w][1])]
        H2 == [H1 EXCEPT ![out][2] = QAdd(H1[v][1], H1[w][2])]
    IN  [H |-> H2, ret |-> out]

NextMatrix ==
    \/ \E v \in Args, w \in Args, out \in Outs \ {NoOut} :
           VecStep /\ Called("addVec2", v, w, out, Matrix_addVec2(vec.heap, out, v, w))
    \/ \E v \in Args, w \in Args, out \in Outs \ {NoOut} :
           VecStep /\ Called("add", v, w, out, Vec2_add(vec.heap, v, w, out))

\* C11: addVec2(out, v, w) leaves in out the componentwise sum of v and w,
\* out[0] = v[0] + w[0] and out[1] = v[1] + w[1], as Vec2.add(v, w) gives.
C11_AddVec2IsSum ==
    vec.call.op = "addVec2" =>
        vec.heap[vec.call.out] =
            << QAdd(vec.in[vec.call.v][1], vec.in[vec.call.w][1]),
               QAdd(vec.in[vec.call.v][2], vec.in[vec.call.w][2]) >>

----------------------------------------------------------------------------
(* AABB.isValid, on JavaScript values  (src/src/collision/AABB.ts)          *)

\* Number.isFinite(x)
IsFinite(x) == x.kind = "number"

\* a - b: undefined and NaN give NaN
Minus2(a, b) ==
    IF a.kind = "number" /\ b.kind = "number" THEN Num(a.val - b.val) ELSE NaN

\* Vec2.isValid(obj)
Vec2_isValid(obj) ==
    IF obj = Null \/ obj = Undefined THEN FALSE
    ELSE IsFinite(Get(obj, "0")) /\ IsFinite(Get(obj, "1"))

\* new AABB(lower, upper), new AABB(lower) and new AABB()
AABB_newJS(lower, upper) ==
    LET zero == Array2(Num(0), Num(0))
        lowerBound == IF lower.kind = "array" THEN Array2(Get(lower, "0"), Get(lower, "1")) ELSE zero
        upperBound == IF upper.kind = "array" THEN Array2(Get(upper, "0"), Get(upper, "1"))
                      ELSE IF lower.kind = "array" THEN Array2(Get(lower, "0"), Get(lower, "1"))
                      ELSE zero
    IN  [kind |-> "object",
         props |-> [k \in {"lowerBound", "upperBound"} |->
                        IF k = "lowerBound" THEN lowerBound ELSE upperBound]]

\* AABB.isValid(obj): Vec2.sub, Vec2.lengthSquared and >= 0 are in the LET
AABB_isValid(obj) ==
    IF obj = Null \/ obj = Undefined THEN FALSE
    ELSE LET lo == Get(obj, "lowerBound")
             up == Get(obj, "upperBound")
             d == Array2(Minus2(Get(up, "0"), Get(lo, "0")), Minus2(Get(up, "1"), Get(lo, "1")))
             lengthSquared == Plus2(Times2(Get(d, "0"), Get(d, "0")), Times2(Get(d, "1"), Get(d, "1")))
         IN  /\ Vec2_isValid(lo)
             /\ Vec2_isValid(up)
             /\ lengthSquared.kind = "number" /\ lengthSquared.val >= 0

\* the values isValid is called on: boxes with bounds over 0, 2 and NaN, the
\* boxes new AABB(lower) and new AABB(), and undefined
Coordinates == { Num(0), Num(2), NaN }

ValidityInputs ==
    { AABB_newJS(Array2(a, b), Array2(c, d)) :
          a \in Coordinates, b \in Coordinates, c \in Coordinates, d \in Coordinates }
    \cup { AABB_newJS(Undefined, Undefined), AABB_newJS(Array2(Num(2), Num(0)), Undefined),
           Undefined }

NoCalc == [in |-> Undefined, op |-> "none", out |-> FALSE]

CalcStep ==
    /\ calc.op = "none"
    /\ UNCHANGED exceptCalcVars

NextIsValid ==
    CalcStep /\ calc' = [calc EXCEPT !.op = "isValid", !.out = AABB_isValid(calc.in)]

\* the bounds are finite numbers, and sorted on both axes
SortedBounds(obj) ==
    /\ obj # Undefined
    /\ \A k \in {"0", "1"} :
           /\ obj.props.lowerBound.props[k].kind = "number"
           /\ obj.props.upperBound.props[k].kind = "number"
           /\ obj.props.lowerBound.props[k].val <= obj.props.upperBound.props[k].val

\* C12: isValid() is true only for an AABB whose bounds have finite coordinates
\* with lowerBound <= upperBound on each axis; an AABB with the lower bound
\* above the upper bound on some axis is invalid, new AABB() is valid.
C12_IsValidSorted ==
    calc.op = "isValid" => (calc.out <=> SortedBounds(calc.in))

----------------------------------------------------------------------------
(* AABB.combine and AABB.contains as calls  (src/src/collision/AABB.ts)     *)

\* the boxes o and a of o.combine(a) and o.contains(a): every pair of bounds
\* over three coordinates, sorted or not
Corners == { <<x, y>> : x \in 0..2, y \in 0..2 }

BoxPairs ==
    { [o |-> AABB_new(ol, ou), a |-> AABB_new(al, au)] :
          ol \in Corners, ou \in Corners, al \in Corners, au \in Corners }

NextCombine ==
    \/ CalcStep /\ calc' = [calc EXCEPT !.op = "combine",
                                        !.out = AABB_combine(calc.in.a, calc.in.o)]
    \/ CalcStep /\ calc' = [calc EXCEPT !.op = "contains",
                                        !.out = AABB_contains(calc.in.o, calc.in.a)]

----------------------------------------------------------------------------
(* AABB.rayCast, on JavaScript values  (src/src/collision/AABB.ts)          *)
(*                                                                         *)
(* Numbers are Num(q) with q an exact fraction, Infinity and -Infinity are  *)
(* Inf(1) and Inf(-1).  Coordinates are read by the keys the code reads     *)
(* them by: "0" and "1" in Vec2.sub and Vec2.abs, f = "x" and "y" in the    *)
(* loop over the axes.                                                      *)

Inf(sign) == [kind |-> "Infinity", sign |-> sign]

\* this.rayCast(output, input): the value returned and the output written
AABB_rayCast(this, input) ==
    LET \* a < b: false when an operand is undefined or NaN
        less(a, b) ==
            IF a.kind = "number" /\ b.kind = "number" THEN QGreater(b.val, a.val)
            ELSE IF a.kind = "Infinity" /\ b.kind = "number" THEN a.sign < 0
            ELSE IF a.kind = "number" /\ b.kind = "Infinity" THEN b.sign > 0
            ELSE IF a.kind = "Infinity" /\ b.kind = "Infinity" THEN a.sign < b.sign
            ELSE FALSE
        \* a - b on coordinates
        minus(a, b) ==
            IF a.kind = "number" /\ b.kind = "number" THEN Num(QSub(a.val, b.val)) ELSE NaN
        \* 1.0 / b
        inverse(b) ==
            IF b.kind = "number"
            THEN IF b.val.n = 0 THEN Inf(1) ELSE Num(QDiv(Q(1), b.val))
            ELSE NaN
        \* a * b with a a number or not a number, b the inverse
        times(a, b) ==
            IF a.kind = "number" /\ b.kind = "number" THEN Num(QMul(a.val, b.val))
            ELSE IF a.kind = "number" /\ b.kind = "Infinity"
                 THEN IF a.val.n = 0 THEN NaN
                      ELSE Inf(IF a.val.n > 0 THEN b.sign ELSE -b.sign)
            ELSE NaN
        \* Math.min(a, b) and Math.abs(a)
        min(a, b) ==
            IF a.kind \in {"NaN", "undefined"} \/ b.kind \in {"NaN", "undefined"} THEN NaN
            ELSE IF less(b, a) THEN b ELSE a
        abs(a) == IF a.kind = "number" THEN Num(Frac(Abs(a.val.n), a.val.d)) ELSE NaN
        p == Get(input, "p1")
        d == Array2(minus(Get(Get(input, "p2"), "0"), Get(Get(input, "p1"), "0")),
                    minus(Get(Get(input, "p2"), "1"), Get(Get(input, "p1"), "1")))
        absD == Array2(abs(Get(d, "0")), abs(Get(d, "1")))
        lowerBound == Get(this, "lowerBound")
        upperBound == Get(this, "upperBound")
        start == [returned |-> FALSE, tmin |-> Inf(-1), tmax |-> Inf(1),
                  normal |-> Array2(Num(Q(0)), Num(Q(0)))]
        \* one turn of the loop, for f = "x" and then f = "y"
        axis(st, f) ==
            IF st.returned THEN st
            ELSE IF Get(absD, "0").kind = "number" /\ BelowEpsilon(Get(absD, "0").val)
            THEN IF less(Get(p, f), Get(lowerBound, f)) \/ less(Get(upperBound, f), Get(p, f))
                 THEN [st EXCEPT !.returned = TRUE]
                 ELSE st
            ELSE LET inv_d == inverse(Get(d, f))
                     ta == times(minus(Get(lowerBound, f), Get(p, f)), inv_d)
                     tb == times(minus(Get(upperBound, f), Get(p, f)), inv_d)
                     swap == less(tb, ta)
                     t1 == IF swap THEN tb ELSE ta
                     t2 == IF swap THEN ta ELSE tb
                     s == IF swap THEN Num(Q(1)) ELSE Num(Q(-1))
                     push == less(st.tmin, t1)
                     tmin == IF push THEN t1 ELSE st.tmin
                     normal ==
                         IF push
                         THEN [kind |-> "array",
                               props |-> [k \in {"0", "1", f} |-> IF k = f THEN s ELSE Num(Q(0))]]
                         ELSE st.normal
                     tmax == min(st.tmax, t2)
                 IN  [returned |-> less(tmax, tmin), tmin |-> tmin, tmax |-> tmax,
                      normal |-> normal]
        end == axis(axis(start, "x"), "y")
        nothing == [fraction |-> Undefined, normal |-> Undefined]
    IN  IF end.returned THEN [ret |-> FALSE, output |-> nothing]
        ELSE IF less(end.tmin, Num(Q(0))) \/ less(Get(input, "maxFraction"), end.tmin)
        THEN [ret |-> FALSE, output |-> nothing]
        ELSE [ret |-> TRUE, output |-> [fraction |-> end.tmin, normal |-> end.normal]]

\* the rays cast at the box (1, 1)-(2, 2): every segment between points of a
\* grid around it, to the full length or to half of it
GridPoints == { Array2(Num(Q(x)), Num(Q(y))) : x \in 0..3, y \in 0..3 }

RayCasts ==
    { [this |-> AABB_newJS(Array2(Num(Q(1)), Num(Q(1))), Array2(Num(Q(2)), Num(Q(2)))),
       input |-> [kind |-> "object",
                  props |-> [k \in {"p1", "p2", "maxFraction"} |->
                                 IF k = "p1" THEN p1 ELSE IF k = "p2" THEN p2 ELSE Num(m)]]] :
          p1 \in GridPoints, p2 \in GridPoints, m \in {Q(1), Frac(1, 2)} }

NextRayCast ==
    CalcStep /\ calc' = [calc EXCEPT !.op = "rayCast",
                                     !.out = AABB_rayCast(calc.in.this, calc.in.input)]

\* coordinate k of point pt of the ray, and of a bound of the box, as integers
RayCoord(pt, k) == calc.in.input.props[pt].props[k].val.n
BoxCoord(b, k) == calc.in.this.props[b].props[k].val.n

\* the point at fraction i/6 of the segment lies in the box (times 6)
InBoxAt(i) ==
    \A k \in {"0", "1"} :
        LET at == 6 * RayCoord("p1", k) + i * (RayCoord("p2", k) - RayCoord("p1", k))
        IN  6 * BoxCoord("lowerBound", k) <= at /\ at <= 6 * BoxCoord("upperBound", k)

\* the sixths of the segment that lie in the box within maxFraction
HitsAt ==
    { i \in 0..6 : /\ InBoxAt(i)
                   /\ i * calc.in.input.props.maxFraction.val.d
                          <= 6 * calc.in.input.props.maxFraction.val.n }

\* C14: rayCast returns true, with the entry fraction 0 <= t <= maxFraction
\* and a normal along one axis, when the segment starts outside the box and
\* hits it within maxFraction; it returns false when the segment misses.
C14_RayCastHits ==
    calc.op = "rayCast" =>
        /\ (~InBoxAt(0) /\ HitsAt # {}) =>
               /\ calc.out.ret = TRUE
               /\ \E i \in HitsAt :
                      /\ calc.out.output.fraction = Num(Frac(i, 6))
                      /\ \A j \in HitsAt : i <= j
               /\ \E k \in {"0", "1"} :
                      /\ calc.out.output.normal.props[k].val \in {Q(1), Q(-1)}
                      /\ \A h \in {"0", "1"} \ {k} : calc.out.output.normal.props[h].val = Q(0)
        /\ HitsAt = {} => calc.out.ret = FALSE

----------------------------------------------------------------------------
(* Joints: reaction force and torque                                        *)
(* (src/src/dynamics/joint/FrictionJoint.ts, which holds FrictionJoint and  *)
(* PulleyJoint, WeldJoint.ts, and RopeJoint in src/unnamed/part_006)        *)
(*                                                                         *)
(* A joint is a record of its fields; a field that holds an array holds    *)
(* the reference of the array in the memory H, as in the Vec2 section.     *)

\* Vec2.mulNumVec2(a, b, out)
Vec2_mulNumVec2(H, a, b, out) ==
    LET o == DefaultOut(H, out)
    IN  Vec2_set(o.H, QMul(a, o.H[b][1]), QMul(a, o.H[b][2]), o.ret)

\* a getReactionForce that writes the product into m_linearImpulse
FrictionJoint_getReactionForce_inPlace(H, this, inv_dt) ==
    Vec2_mulNumVec2(H, inv_dt, this.m_linearImpulse, this.m_linearImpulse)

\* FrictionJoint.getReactionForce(inv_dt) and getReactionTorque(inv_dt)
FrictionJoint_getReactionForce(H, this, inv_dt) ==
    Vec2_mulNumVec2(H, inv_dt, this.m_linearImpulse, NoOut)

FrictionJoint_getReactionTorque(H, this, inv_dt) ==
    [H |-> H, ret |-> QMul(inv_dt, this.m_angularImpulse)]

\* WeldJoint.getReactionForce(inv_dt) and getReactionTorque(inv_dt)
WeldJoint_getReactionForce(H, this, inv_dt) ==
    Vec2_createIn(H, QMul(H[this.m_impulse][1], inv_dt), QMul(H[this.m_impulse][2], inv_dt))

WeldJoint_getReactionTorque(H, this, inv_dt) ==
    [H |-> H, ret |-> QMul(inv_dt, H[this.m_impulse][3])]

\* PulleyJoint.getReactionForce(inv_dt) and getReactionTorque(inv_dt)
PulleyJoint_getReactionForce(H, this, inv_dt) ==
    LET f == Vec2_mulNumVec2(H, this.m_impulse, this.m_uB, NoOut)
    IN  Vec2_scale(f.H, f.ret, inv_dt, f.ret)

PulleyJoint_getReactionTorque(H, this, inv_dt) == [H |-> H, ret |-> Q(0)]

\* RopeJoint.getReactionForce(inv_dt) and getReactionTorque(inv_dt)
RopeJoint_getReactionForce(H, this, inv_dt) ==
    LET f == Vec2_mulNumVec2(H, this.m_impulse, this.m_u, NoOut)
    IN  Vec2_scale(f.H, f.ret, inv_dt, f.ret)

RopeJoint_getReactionTorque(H, this, inv_dt) == [H |-> H, ret |-> Q(0)]

\* the joints asked for their reaction: the impulse (of three numbers in a
\* weld joint) is the array 1 and the unit axis the array 2
UnitAxes == { QPair(1, 0), QPair(0, -1), <<Frac(3, 5), Frac(4, 5)>> }

ImpulseJoints ==
    { [H |-> [r \in Refs |-> IF r = 1 THEN p ELSE NoArray],
       joint |-> [type |-> "friction", m_linearImpulse |-> 1, m_angularImpulse |-> a]] :
          p \in Vec2Inputs, a \in Scalars }
    \cup { [H |-> [r \in Refs |-> IF r = 1 THEN <<p[1], p[2], a>> ELSE NoArray],
            joint |-> [type |-> "weld", m_impulse |-> 1]] :
               p \in Vec2Inputs, a \in Scalars }
    \cup { [H |-> [r \in Refs |-> IF r = 2 THEN u ELSE NoArray],
            joint |-> [type |-> "pulley", m_impulse |-> a, m_uB |-> 2]] :
               u \in UnitAxes, a \in Scalars }
    \cup { [H |-> [r \in Refs |-> IF r = 2 THEN u ELSE NoArray],
            joint |-> [type |-> "rope", m_impulse |-> a, m_u |-> 2]] :
               u \in UnitAxes, a \in Scalars }

ReactionCalls ==
    { [H |-> j.H, joint |-> j.joint, inv_dt |-> i] : j \in ImpulseJoints, i \in {Q(60), Frac(1, 2)} }

NextReaction ==
    \/ CalcStep /\ calc' =
           [calc EXCEPT !.op = "getReactionForce",
                        !.out = CASE calc.in.joint.type = "friction" ->
                                         FrictionJoint_getReactionForce(calc.in.H, calc.in.joint, calc.in.inv_dt)
                                  [] calc.in.joint.type = "weld" ->
                                         WeldJoint_getReactionForce(calc.in.H, calc.in.joint, calc.in.inv_dt)
                                  [] calc.in.joint.type = "pulley" ->
                                         PulleyJoint_getReactionForce(calc.in.H, calc.in.joint, calc.in.inv_dt)
                                  [] calc.in.joint.type = "rope" ->
                                         RopeJoint_getReactionForce(calc.in.H, calc.in.joint, calc.in.inv_dt)]
    \/ CalcStep /\ calc' =
           [calc EXCEPT !.op = "getReactionTorque",
                        !.out = CASE calc.in.joint.type = "friction" ->
                                         FrictionJoint_getReactionTorque(calc.in.H, calc.in.joint, calc.in.inv_dt)
                                  [] calc.in.joint.type = "weld" ->
                                         WeldJoint_getReactionTorque(calc.in.H, calc.in.joint, calc.in.inv_dt)
                                  [] calc.in.joint.type = "pulley" ->
                                         PulleyJoint_getReactionTorque(calc.in.H, calc.in.joint, calc.in.inv_dt)
                                  [] calc.in.joint.type = "rope" ->
                                         RopeJoint_getReactionTorque(calc.in.H, calc.in.joint, calc.in.inv_dt)]

\* the linear and the angular impulse a joint had accumulated before the call
LinearImpulse ==
    LET j == calc.in.joint
        H == calc.in.H
    IN  CASE j.type = "friction" -> H[1]
          [] j.type = "weld" -> <<H[1][1], H[1][2]>>
          [] j.type \in {"pulley", "rope"} -> <<QMul(j.m_impulse, H[2][1]), QMul(j.m_impulse, H[2][2])>>

AngularImpulse ==
    CASE calc.in.joint.type = "friction" -> calc.in.joint.m_angularImpulse
      [] calc.in.joint.type = "weld" -> calc.in.H[1][3]
      [] calc.in.joint.type \in {"pulley", "rope"} -> Q(0)

\* the arrays the joint holds are as they were before the call
JointArraysKept ==
    \A r \in { r \in Refs : calc.in.H[r] # NoArray } : calc.out.H[r] = calc.in.H[r]

\* C15: getReactionForce(inv_dt) is inv_dt times the accumulated linear
\* impulse (for rope and pulley joints the scalar impulse times the unit
\* axis), getReactionTorque(inv_dt) is inv_dt times the accumulated angular
\* impulse (0 where there is none), and neither changes the joint.
C15_ReactionIsScaledImpulse ==
    /\ calc.op = "getReactionForce" =>
           /\ calc.out.H[calc.out.ret] = << QMul(calc.in.inv_dt, LinearImpulse[1]),
                                            QMul(calc.in.inv_dt, LinearImpulse[2]) >>
           /\ JointArraysKept
    /\ calc.op = "getReactionTorque" =>
           /\ calc.out.ret = QMul(calc.in.inv_dt, AngularImpulse)
           /\ JointArraysKept

\* the force of a rope joint with impulse 2 along (3/5, 4/5), at inv_dt 60
C15_Witness ==
    /\ calc.op = "getReactionForce"
    /\ calc.in.joint.type = "rope"
    /\ calc.out.H[calc.out.ret] = <<Q(72), Q(96)>>
    /\ calc.out.H[2] = <<Frac(3, 5), Frac(4, 5)>>

----------------------------------------------------------------------------
(* Numbers, vectors and matrices as values                                  *)
(* (src/src/common/Vec2.ts, Mat22.ts, Mat33.ts, src/unnamed/part_005)       *)
(*                                                                         *)
(* The joint solvers below pass no array to a function that also writes    *)
(* it before reading it, so a vector is the tuple of its coordinates.  A   *)
(* Mat22 is [ex, ey] and a Mat33 [ex, ey, ez], the columns.                *)

QLess(p, q) == QGreater(q, p)
QLessEq(p, q) == ~QGreater(p, q)
math_abs(q) == Frac(Abs(q.n), q.d)

\* a * b + c * d and a * b - c * d
QDot2(a, b, c, d) == QAdd(QMul(a, b), QMul(c, d))
QDet2(a, b, c, d) == QSub(QMul(a, b), QMul(c, d))

\* Vec2.add, Vec2.sub, Vec2.mulNumVec2 (Vec2.scale with the arguments swapped),
\* Vec2.addMul, Vec2.subMul, Vec2.crossVec2Vec2, Vec2.length
add(v, w) == <<QAdd(v[1], w[1]), QAdd(v[2], w[2])>>
sub(v, w) == <<QSub(v[1], w[1]), QSub(v[2], w[2])>>
mulNumVec2(a, b) == <<QMul(a, b[1]), QMul(a, b[2])>>
addMul(src, a, v) == <<QAdd(src[1], QMul(a, v[1])), QAdd(src[2], QMul(a, v[2]))>>
subMul(src, a, v) == <<QSub(src[1], QMul(a, v[1])), QSub(src[2], QMul(a, v[2]))>>
crossVec2Vec2(v, w) == QDet2(v[1], w[2], v[2], w[1])
length(v) == math_sqrt(QDot2(v[1], v[1], v[2], v[2]))

\* if (det !== 0.0) det = 1.0 / det
InverseUnlessZero(det) == IF det # Q(0) THEN QDiv(Q(1), det) ELSE det

\* Mat22.getInverse()
Mat22_getInverse(this) ==
    LET a == this.ex[1]
        b == this.ey[1]
        c == this.ex[2]
        d == this.ey[2]
        det == InverseUnlessZero(QDet2(a, d, b, c))
    IN  [ex |-> <<QMul(det, d), QMul(QNeg(det), c)>>,
         ey |-> <<QMul(QNeg(det), b), QMul(det, a)>>]

\* Mat22.solve(v)
Mat22_solve(this, v) ==
    LET a == this.ex[1]
        b == this.ey[1]
        c == this.ex[2]
        d == this.ey[2]
        det == InverseUnlessZero(QDet2(a, d, b, c))
    IN  <<QMul(det, QDet2(d, v[1], b, v[2])), QMul(det, QDet2(a, v[2], c, v[1]))>>

\* Vec3.cross(v, w) and Vec3.dot(v, w)
Vec3_cross(v, w) ==
    <<QDet2(v[2], w[3], v[3], w[2]), QDet2(v[3], w[1], v[1], w[3]), QDet2(v[1], w[2], v[2], w[1])>>
Vec3_dot(v, w) == QAdd(QDot2(v[1], w[1], v[2], w[2]), QMul(v[3], w[3]))

\* Mat33.solve33(v)
Mat33_solve33(this, v) ==
    LET det == InverseUnlessZero(Vec3_dot(this.ex, Vec3_cross(this.ey, this.ez)))
    IN  <<QMul(det, Vec3_dot(v, Vec3_cross(this.ey, this.ez))),
          QMul(det, Vec3_dot(this.ex, Vec3_cross(v, this.ez))),
          QMul(det, Vec3_dot(this.ex, Vec3_cross(this.ey, v)))>>

\* Mat33.solve22(v)
Mat33_solve22(this, v) ==
    LET a11 == this.ex[1]
        a12 == this.ey[1]
        a21 == this.ex[2]
        a22 == this.ey[2]
        det == InverseUnlessZero(QDet2(a11, a22, a12, a21))
    IN  <<QMul(det, QDet2(a22, v[1], a12, v[2])), QMul(det, QDet2(a11, v[2], a21, v[1]))>>

\* Mat33.getInverse22(M): the value M takes
Mat33_getInverse22(this) ==
    LET a == this.ex[1]
        b == this.ey[1]
        c == this.ex[2]
        d == this.ey[2]
        det == InverseUnlessZero(QDet2(a, d, b, c))
    IN  [ex |-> <<QMul(det, d), QMul(QNeg(det), c), Q(0)>>,
         ey |-> <<QMul(QNeg(det), b), QMul(det, a), Q(0)>>,
         ez |-> <<Q(0), Q(0), Q(0)>>]

\* Mat33.getSymInverse33(M): the value M takes
Mat33_getSymInverse33(this) ==
    LET det == InverseUnlessZero(Vec3_dot(this.ex, Vec3_cross(this.ey, this.ez)))
        a11 == this.ex[1]
        a12 == this.ey[1]
        a13 == this.ez[1]
        a22 == this.ey[2]
        a23 == this.ez[2]
        a33 == this.ez[3]
        ex0 == QMul(det, QDet2(a22, a33, a23, a23))
        ex1 == QMul(det, QDet2(a13, a23, a12, a33))
        ex2 == QMul(det, QDet2(a12, a23, a13, a22))
        ey1 == QMul(det, QDet2(a11, a33, a13, a13))
        ey2 == QMul(det, QDet2(a13, a12, a11, a23))
        ez2 == QMul(det, QDet2(a11, a22, a12, a12))
    IN  [ex |-> <<ex0, ex1, ex2>>, ey |-> <<ex1, ey1, ey2>>, ez |-> <<ex2, ey2, ez2>>]

----------------------------------------------------------------------------
(* Joints: the solver callbacks                                             *)
(* (FrictionJoint.ts with FrictionJoint and PulleyJoint, WeldJoint.ts,      *)
(* RopeJoint in src/unnamed/part_006; Rot, Settings, Body and the solver    *)
(* that calls the joints are not in src/ and follow spec 3 and 4.6)         *)
(*                                                                         *)
(* A body is [localCenter, m_invMass, m_invI, c, a, v, w]: m_sweep's local *)
(* center, the inverse mass and inertia, and c_position and c_velocity.    *)
(* An angle is [turns, rad], turns quarter turns plus rad radians, so that *)
(* the sine and cosine of the angles drawn (rad = 0) are exact.            *)

Angle(turns, rad) == [turns |-> turns, rad |-> rad]

\* a + x, and a - b for angles of the same number of quarter turns
AnglePlus(a, x) == [a EXCEPT !.rad = QAdd(@, x)]
AngleMinus(a, b) == QSub(a.rad, b.rad)

\* Rot.neo(angle): the sine and the cosine
Rot_neo(angle) ==
    CASE angle.turns % 4 = 0 -> [s |-> Q(0), c |-> Q(1)]
      [] angle.turns % 4 = 1 -> [s |-> Q(1), c |-> Q(0)]
      [] angle.turns % 4 = 2 -> [s |-> Q(0), c |-> Q(-1)]
      [] angle.turns % 4 = 3 -> [s |-> Q(-1), c |-> Q(0)]

\* Rot.mulVec2(q, v); Rot.mulSub(q, v, w) is Rot_mulVec2(q, sub(v, w))
Rot_mulVec2(q, v) ==
    <<QSub(QMul(q.c, v[1]), QMul(q.s, v[2])), QAdd(QMul(q.s, v[1]), QMul(q.c, v[2]))>>

\* Settings.linearSlop, Settings.angularSlop and Settings.maxLinearCorrection:
\* adjustable tolerances, here coarse ones that keep the fractions small, in
\* the order of the defaults (linearSlop < angularSlop < maxLinearCorrection)
Settings_linearSlop == Frac(1, 4)
Settings_angularSlop == Frac(1, 2)
Settings_maxLinearCorrection == Q(10)

\* what a callback leaves: the joint, the two bodies, and the value returned
Solved(joint, bodyA, bodyB, ret) ==
    [joint |-> joint, bodyA |-> bodyA, bodyB |-> bodyB, ret |-> ret]

\* the velocities written back at the end of initVelocityConstraints
WithVelocity(body, v, w) == [body EXCEPT !.v = v, !.w = w]

\* FrictionJoint.initVelocityConstraints(step)
FrictionJoint_initVelocityConstraints(this, bodyA, bodyB, step) ==
    LET qA == Rot_neo(bodyA.a)
        qB == Rot_neo(bodyB.a)
        m_rA == Rot_mulVec2(qA, sub(this.m_localAnchorA, bodyA.localCenter))
        m_rB == Rot_mulVec2(qB, sub(this.m_localAnchorB, bodyB.localCenter))
        mA == bodyA.m_invMass
        mB == bodyB.m_invMass
        iA == bodyA.m_invI
        iB == bodyB.m_invI
        Kex0 == QAdd(QAdd(mA, mB), QAdd(QMul(iA, QMul(m_rA[2], m_rA[2])),
                                        QMul(iB, QMul(m_rB[2], m_rB[2]))))
        Kex1 == QSub(QMul(QNeg(iA), QMul(m_rA[1], m_rA[2])), QMul(iB, QMul(m_rB[1], m_rB[2])))
        Key1 == QAdd(QAdd(mA, mB), QAdd(QMul(iA, QMul(m_rA[1], m_rA[1])),
                                        QMul(iB, QMul(m_rB[1], m_rB[1]))))
        K == [ex |-> <<Kex0, Kex1>>, ey |-> <<Kex1, Key1>>]
        sum == QAdd(iA, iB)
        m_angularMass == IF QGreater(sum, Q(0)) THEN QDiv(Q(1), sum) ELSE sum
        m_linearImpulse == IF step.warmStarting
                           THEN mulNumVec2(step.dtRatio, this.m_linearImpulse)
                           ELSE <<Q(0), Q(0)>>
        m_angularImpulse == IF step.warmStarting
                            THEN QMul(this.m_angularImpulse, step.dtRatio)
                            ELSE Q(0)
        P == m_linearImpulse
        joint == [this EXCEPT !.m_localCenterA = bodyA.localCenter,
                              !.m_localCenterB = bodyB.localCenter,
                              !.m_invMassA = mA, !.m_invMassB = mB,
                              !.m_invIA = iA, !.m_invIB = iB,
                              !.m_rA = m_rA, !.m_rB = m_rB,
                              !.m_linearMass = Mat22_getInverse(K),
                              !.m_angularMass = m_angularMass,
                              !.m_linearImpulse = m_linearImpulse,
                              !.m_angularImpulse = m_angularImpulse]
    IN  IF step.warmStarting
        THEN Solved(joint,
                    WithVelocity(bodyA, subMul(bodyA.v, mA, P),
                                 QSub(bodyA.w, QMul(iA, QAdd(crossVec2Vec2(m_rA, P), m_angularImpulse)))),
                    WithVelocity(bodyB, addMul(bodyB.v, mB, P),
                                 QAdd(bodyB.w, QMul(iB, QAdd(crossVec2Vec2(m_rB, P), m_angularImpulse)))),
                    FALSE)
        ELSE Solved(joint, bodyA, bodyB, FALSE)

\* the matrix K that WeldJoint builds in initVelocityConstraints and in
\* solvePositionConstraints
WeldJoint_K(rA, rB, mA, mB, iA, iB) ==
    LET ex0 == QAdd(QAdd(mA, mB), QAdd(QMul(QMul(rA[2], rA[2]), iA), QMul(QMul(rB[2], rB[2]), iB)))
        ey0 == QSub(QMul(QMul(QNeg(rA[2]), rA[1]), iA), QMul(QMul(rB[2], rB[1]), iB))
        ez0 == QSub(QMul(QNeg(rA[2]), iA), QMul(rB[2], iB))
        ey1 == QAdd(QAdd(mA, mB), QAdd(QMul(QMul(rA[1], rA[1]), iA), QMul(QMul(rB[1], rB[1]), iB)))
        ez1 == QAdd(QMul(rA[1], iA), QMul(rB[1], iB))
    IN  [ex |-> <<ex0, ey0, ez0>>, ey |-> <<ey0, ey1, ez1>>, ez |-> <<ez0, ez1, QAdd(iA, iB)>>]

\* WeldJoint.initVelocityConstraints(step); m_frequencyHz is 0.0, its default,
\* in every weld joint drawn, and the branch for a spring is left out
WeldJoint_initVelocityConstraints(this, bodyA, bodyB, step) ==
    LET qA == Rot_neo(bodyA.a)
        qB == Rot_neo(bodyB.a)
        m_rA == Rot_mulVec2(qA, sub(this.m_localAnchorA, bodyA.localCenter))
        m_rB == Rot_mulVec2(qB, sub(this.m_localAnchorB, bodyB.localCenter))
        mA == bodyA.m_invMass
        mB == bodyB.m_invMass
        iA == bodyA.m_invI
        iB == bodyB.m_invI
        K == WeldJoint_K(m_rA, m_rB, mA, mB, iA, iB)
        m_mass == IF K.ez[3] = Q(0) THEN Mat33_getInverse22(K) ELSE Mat33_getSymInverse33(K)
        m_impulse == IF step.warmStarting
                     THEN <<QMul(this.m_impulse[1], step.dtRatio),
                            QMul(this.m_impulse[2], step.dtRatio),
                            this.m_impulse[3]>>
                     ELSE <<Q(0), Q(0), Q(0)>>
        P == <<m_impulse[1], m_impulse[2]>>
        joint == [this EXCEPT !.m_localCenterA = bodyA.localCenter,
                              !.m_localCenterB = bodyB.localCenter,
                              !.m_invMassA = mA, !.m_invMassB = mB,
                              !.m_invIA = iA, !.m_invIB = iB,
                              !.m_rA = m_rA, !.m_rB = m_rB,
                              !.m_mass = m_mass, !.m_gamma = Q(0), !.m_bias = Q(0),
                              !.m_impulse = m_impulse]
    IN  IF step.warmStarting
        THEN Solved(joint,
                    WithVelocity(bodyA, subMul(bodyA.v, mA, P),
                                 QSub(bodyA.w, QMul(iA, QAdd(crossVec2Vec2(m_rA, P), m_impulse[3])))),
                    WithVelocity(bodyB, addMul(bodyB.v, mB, P),
                                 QAdd(bodyB.w, QMul(iB, QAdd(crossVec2Vec2(m_rB, P), m_impulse[3])))),
                    FALSE)
        ELSE Solved(joint, bodyA, bodyB, FALSE)

\* a pulley axis: the vector from the ground anchor, of length 1 or zero
PulleyAxis(u) ==
    IF QGreater(length(u), QMul(Q(10), Settings_linearSlop))
    THEN mulNumVec2(QDiv(Q(1), length(u)), u)
    ELSE <<Q(0), Q(0)>>

\* PulleyJoint.initVelocityConstraints(step)
PulleyJoint_initVelocityConstraints(this, bodyA, bodyB, step) ==
    LET qA == Rot_neo(bodyA.a)
        qB == Rot_neo(bodyB.a)
        m_rA == Rot_mulVec2(qA, sub(this.m_localAnchorA, bodyA.localCenter))
        m_rB == Rot_mulVec2(qB, sub(this.m_localAnchorB, bodyB.localCenter))
        m_uA == PulleyAxis(sub(add(bodyA.c, m_rA), this.m_groundAnchorA))
        m_uB == PulleyAxis(sub(add(bodyB.c, m_rB), this.m_groundAnchorB))
        ruA == crossVec2Vec2(m_rA, m_uA)
        ruB == crossVec2Vec2(m_rB, m_uB)
        mA == QAdd(bodyA.m_invMass, QMul(QMul(bodyA.m_invI, ruA), ruA))
        mB == QAdd(bodyB.m_invMass, QMul(QMul(bodyB.m_invI, ruB), ruB))
        mass == QAdd(mA, QMul(QMul(this.m_ratio, this.m_ratio), mB))
        m_mass == IF QGreater(mass, Q(0)) THEN QDiv(Q(1), mass) ELSE mass
        m_impulse == IF step.warmStarting THEN QMul(this.m_impulse, step.dtRatio) ELSE Q(0)
        PA == mulNumVec2(QNeg(m_impulse), m_uA)
        PB == mulNumVec2(QMul(QNeg(this.m_ratio), m_impulse), m_uB)
        joint == [this EXCEPT !.m_localCenterA = bodyA.localCenter,
                              !.m_localCenterB = bodyB.localCenter,
                              !.m_invMassA = bodyA.m_invMass, !.m_invMassB = bodyB.m_invMass,
                              !.m_invIA = bodyA.m_invI, !.m_invIB = bodyB.m_invI,
                              !.m_rA = m_rA, !.m_rB = m_rB, !.m_uA = m_uA, !.m_uB = m_uB,
                              !.m_mass = m_mass, !.m_impulse = m_impulse]
    IN  IF step.warmStarting
        THEN Solved(joint,
                    WithVelocity(bodyA, addMul(bodyA.v, bodyA.m_invMass, PA),
                                 QAdd(bodyA.w, QMul(bodyA.m_invI, crossVec2Vec2(m_rA, PA)))),
                    WithVelocity(bodyB, addMul(bodyB.v, bodyB.m_invMass, PB),
                                 QAdd(bodyB.w, QMul(bodyB.m_invI, crossVec2Vec2(m_rB, PB)))),
                    FALSE)
        ELSE Solved(joint, bodyA, bodyB, FALSE)

\* RopeJoint.initVelocityConstraints(step)
RopeJoint_initVelocityConstraints(this, bodyA, bodyB, step) ==
    LET qA == Rot_neo(bodyA.a)
        qB == Rot_neo(bodyB.a)
        m_rA == Rot_mulVec2(qA, sub(this.m_localAnchorA, bodyA.localCenter))
        m_rB == Rot_mulVec2(qB, sub(this.m_localAnchorB, bodyB.localCenter))
        u == sub(add(<<Q(0), Q(0)>>, add(bodyB.c, m_rB)), add(bodyA.c, m_rA))
        m_length == length(u)
        C == QSub(m_length, this.m_maxLength)
        m_state == IF QGreater(C, Q(0)) THEN "atUpperLimit" ELSE "inactiveLimit"
        m_u == mulNumVec2(QDiv(Q(1), m_length), u)
        crA == crossVec2Vec2(m_rA, m_u)
        crB == crossVec2Vec2(m_rB, m_u)
        invMass == QAdd(QAdd(bodyA.m_invMass, QMul(QMul(bodyA.m_invI, crA), crA)),
                        QAdd(bodyB.m_invMass, QMul(QMul(bodyB.m_invI, crB), crB)))
        m_mass == IF invMass # Q(0) THEN QDiv(Q(1), invMass) ELSE Q(0)
        m_impulse == IF step.warmStarting THEN QMul(this.m_impulse, step.dtRatio) ELSE Q(0)
        P == mulNumVec2(m_impulse, m_u)
        shared == [this EXCEPT !.m_localCenterA = bodyA.localCenter,
                               !.m_localCenterB = bodyB.localCenter,
                               !.m_invMassA = bodyA.m_invMass, !.m_invMassB = bodyB.m_invMass,
                               !.m_invIA = bodyA.m_invI, !.m_invIB = bodyB.m_invI,
                               !.m_rA = m_rA, !.m_rB = m_rB,
                               !.m_length = m_length, !.m_state = m_state]
        joint == [shared EXCEPT !.m_u = m_u, !.m_mass = m_mass, !.m_impulse = m_impulse]
    IN  IF ~QGreater(m_length, Settings_linearSlop)
        THEN Solved([shared EXCEPT !.m_u = <<Q(0), Q(0)>>, !.m_mass = Q(0), !.m_impulse = Q(0)],
                    bodyA, bodyB, FALSE)
        ELSE IF step.warmStarting
        THEN Solved(joint,
                    WithVelocity(bodyA, subMul(bodyA.v, bodyA.m_invMass, P),
                                 QSub(bodyA.w, QMul(bodyA.m_invI, crossVec2Vec2(m_rA, P)))),
                    WithVelocity(bodyB, addMul(bodyB.v, bodyB.m_invMass, P),
                                 QAdd(bodyB.w, QMul(bodyB.m_invI, crossVec2Vec2(m_rB, P)))),
                    FALSE)
        ELSE Solved(joint, bodyA, bodyB, FALSE)

\* the positions written back at the end of solvePositionConstraints
WithPosition(body, c, a) == [body EXCEPT !.c = c, !.a = a]

\* FrictionJoint.solvePositionConstraints(step)
FrictionJoint_solvePositionConstraints(this, bodyA, bodyB) == Solved(this, bodyA, bodyB, TRUE)

\* PulleyJoint.solvePositionConstraints(step)
PulleyJoint_solvePositionConstraints(this, bodyA, bodyB) ==
    LET cA == bodyA.c
        cB == bodyB.c
        qA == Rot_neo(bodyA.a)
        qB == Rot_neo(bodyB.a)
        rA == Rot_mulVec2(qA, sub(this.m_localAnchorA, this.m_localCenterA))
        rB == Rot_mulVec2(qB, sub(this.m_localAnchorB, this.m_localCenterB))
        lengthA == length(sub(add(cA, this.m_rA), this.m_groundAnchorA))
        lengthB == length(sub(add(cB, this.m_rB), this.m_groundAnchorB))
        uA == PulleyAxis(sub(add(cA, this.m_rA), this.m_groundAnchorA))
        uB == PulleyAxis(sub(add(cB, this.m_rB), this.m_groundAnchorB))
        ruA == crossVec2Vec2(rA, uA)
        ruB == crossVec2Vec2(rB, uB)
        mA == QAdd(this.m_invMassA, QMul(QMul(this.m_invIA, ruA), ruA))
        mB == QAdd(this.m_invMassB, QMul(QMul(this.m_invIB, ruB), ruB))
        sum == QAdd(mA, QMul(QMul(this.m_ratio, this.m_ratio), mB))
        mass == IF QGreater(sum, Q(0)) THEN QDiv(Q(1), sum) ELSE sum
        C == QSub(QSub(this.m_constant, lengthA), QMul(this.m_ratio, lengthB))
        linearError == math_abs(C)
        impulse == QMul(QNeg(mass), C)
        PA == mulNumVec2(QNeg(impulse), uA)
        PB == mulNumVec2(QMul(QNeg(this.m_ratio), impulse), uB)
    IN  Solved(this,
               WithPosition(bodyA, addMul(cA, this.m_invMassA, PA),
                            AnglePlus(bodyA.a, QMul(this.m_invIA, crossVec2Vec2(rA, PA)))),
               WithPosition(bodyB, addMul(cB, this.m_invMassB, PB),
                            AnglePlus(bodyB.a, QMul(this.m_invIB, crossVec2Vec2(rB, PB)))),
               QLess(linearError, Settings_linearSlop))

\* RopeJoint.solvePositionConstraints(step)
RopeJoint_solvePositionConstraints(this, bodyA, bodyB) ==
    LET cA == bodyA.c
        cB == bodyB.c
        qA == Rot_neo(bodyA.a)
        qB == Rot_neo(bodyB.a)
        rA == Rot_mulVec2(qA, sub(this.m_localAnchorA, this.m_localCenterA))
        rB == Rot_mulVec2(qB, sub(this.m_localAnchorB, this.m_localCenterB))
        u0 == sub(add(<<Q(0), Q(0)>>, add(cB, rB)), add(cA, rA))
        \* Vec2.normalize(u, u)
        len == length(u0)
        len0 == IF BelowEpsilon(len) THEN Q(0) ELSE len
        u == IF BelowEpsilon(len) THEN u0 ELSE mulNumVec2(QDiv(Q(1), len), u0)
        \* clamp(C, 0.0, Settings.maxLinearCorrection)
        C0 == QSub(len0, this.m_maxLength)
        C == IF QLess(C0, Q(0)) THEN Q(0)
             ELSE IF QGreater(C0, Settings_maxLinearCorrection) THEN Settings_maxLinearCorrection
             ELSE C0
        impulse == QMul(QNeg(this.m_mass), C)
        P == mulNumVec2(impulse, u)
    IN  Solved(this,
               WithPosition(bodyA, subMul(cA, this.m_invMassA, P),
                            AnglePlus(bodyA.a, QNeg(QMul(this.m_invIA, crossVec2Vec2(rA, P))))),
               WithPosition(bodyB, addMul(cB, this.m_invMassB, P),
                            AnglePlus(bodyB.a, QMul(this.m_invIB, crossVec2Vec2(rB, P)))),
               QLess(QSub(len0, this.m_maxLength), Settings_linearSlop))

\* WeldJoint.solvePositionConstraints(step), with m_frequencyHz 0.0
WeldJoint_solvePositionConstraints(this, bodyA, bodyB) ==
    LET cA == bodyA.c
        cB == bodyB.c
        qA == Rot_neo(bodyA.a)
        qB == Rot_neo(bodyB.a)
        mA == this.m_invMassA
        mB == this.m_invMassB
        iA == this.m_invIA
        iB == this.m_invIB
        rA == Rot_mulVec2(qA, sub(this.m_localAnchorA, this.m_localCenterA))
        rB == Rot_mulVec2(qB, sub(this.m_localAnchorB, this.m_localCenterB))
        K == WeldJoint_K(rA, rB, mA, mB, iA, iB)
        C1 == sub(add(<<Q(0), Q(0)>>, add(cB, rB)), add(cA, rA))
        C2 == QSub(AngleMinus(bodyB.a, bodyA.a), this.m_referenceAngle)
        positionError == length(C1)
        angularError == math_abs(C2)
        solved33 == Mat33_solve33(K, <<C1[1], C1[2], C2>>)
        solved22 == Mat33_solve22(K, C1)
        impulse == IF QGreater(K.ez[3], Q(0))
                   THEN <<QNeg(solved33[1]), QNeg(solved33[2]), QNeg(solved33[3])>>
                   ELSE <<QNeg(solved22[1]), QNeg(solved22[2]), Q(0)>>
        P == <<impulse[1], impulse[2]>>
    IN  Solved(this,
               WithPosition(bodyA, subMul(cA, mA, P),
                            AnglePlus(bodyA.a, QNeg(QMul(iA, QAdd(crossVec2Vec2(rA, P), impulse[3]))))),
               WithPosition(bodyB, addMul(cB, mB, P),
                            AnglePlus(bodyB.a, QMul(iB, QAdd(crossVec2Vec2(rB, P), impulse[3])))),
               QLessEq(positionError, Settings_linearSlop)
                   /\ QLessEq(angularError, Settings_angularSlop))

\* the bodies a joint connects: at rest at angle 0, body B at c, with inverse
\* inertia invI
Zero2 == <<Q(0), Q(0)>>

BodyAt(c, invI) ==
    [localCenter |-> Zero2, m_invMass |-> Q(1), m_invI |-> invI,
     c |-> c, a |-> Angle(0, Q(0)), v |-> Zero2, w |-> Q(0)]

\* the fields every joint has after its constructor, with the anchors given
JointFields(type, localAnchorA, localAnchorB) ==
    [type |-> type, m_localAnchorA |-> localAnchorA, m_localAnchorB |-> localAnchorB,
     m_localCenterA |-> Zero2, m_localCenterB |-> Zero2,
     m_invMassA |-> Q(0), m_invMassB |-> Q(0), m_invIA |-> Q(0), m_invIB |-> Q(0),
     m_rA |-> Zero2, m_rB |-> Zero2]

\* r @@ more, for records
With(r, more) ==
    [f \in DOMAIN r \cup DOMAIN more |-> IF f \in DOMAIN more THEN more[f] ELSE r[f]]

\* the joints stepped, each with the impulse of an earlier step and at some
\* distance from where its constraint holds: error 0, the tolerance, twice it
Errors == { Q(0), Q(1), Q(2) }

JointScenes ==
    { Solved(With(JointFields("friction", <<Q(1), Q(0)>>, <<Q(1), Q(0)>>),
                  [m_linearImpulse |-> <<Q(3), QMul(e, Q(4))>>, m_angularImpulse |-> Q(3),
                   m_linearMass |-> [ex |-> Zero2, ey |-> Zero2], m_angularMass |-> Q(0)]),
             BodyAt(Zero2, i), BodyAt(<<Q(4), Q(4)>>, i), FALSE) :
          e \in Errors, i \in {Q(0), Q(1)} }
    \cup
    { Solved(With(JointFields("weld", <<Q(1), Q(0)>>, <<Q(1), Q(0)>>),
                  [m_impulse |-> <<Q(3), Q(4), Q(5)>>, m_gamma |-> Q(0), m_bias |-> Q(0),
                   m_mass |-> [ex |-> <<Q(0), Q(0), Q(0)>>, ey |-> <<Q(0), Q(0), Q(0)>>,
                               ez |-> <<Q(0), Q(0), Q(0)>>],
                   m_referenceAngle |-> QMul(f, Settings_angularSlop)]),
             BodyAt(Zero2, i),
             BodyAt(<<QMul(e, Frac(3, 20)), QMul(e, Frac(4, 20))>>, i), FALSE) :
          e \in Errors, f \in Errors, i \in {Q(0), Q(1)} }
    \cup
    { Solved(With(JointFields("pulley", <<Q(1), Q(0)>>, Zero2),
                  [m_groundAnchorA |-> Zero2, m_groundAnchorB |-> <<Q(10), Q(0)>>,
                   m_ratio |-> ratio,
                   m_constant |-> QAdd(QAdd(Q(5), QMul(ratio, Q(4))), QMul(e, Settings_linearSlop)),
                   m_impulse |-> Q(3), m_uA |-> Zero2, m_uB |-> Zero2, m_mass |-> Q(0)]),
             BodyAt(<<Q(3), Q(3)>>, i), BodyAt(<<Q(10), Q(4)>>, i), FALSE) :
          e \in Errors, ratio \in {Q(1), Q(2)}, i \in {Q(0), Q(1)} }
    \cup
    { Solved(With(JointFields("rope", <<Q(1), Q(0)>>, Zero2),
                  [m_maxLength |-> QSub(Q(5), QMul(e, Settings_linearSlop)),
                   m_impulse |-> Q(-3), m_u |-> Zero2, m_length |-> Q(0),
                   m_state |-> "inactiveLimit", m_mass |-> Q(0)]),
             BodyAt(Zero2, i), BodyAt(<<Q(4), Q(4)>>, i), FALSE) :
          e \in Errors, i \in {Q(0), Q(1)} }

TimeSteps == { [warmStarting |-> ws, dtRatio |-> r] : ws \in BOOLEAN, r \in {Q(2), Frac(1, 2)} }

\* the solver's calls on a joint in one step: initVelocityConstraints, then
\* the bodies are moved (here both turned by a quarter turn, or left), then
\* solvePositionConstraints
NextJoints ==
    \/ /\ calc.op = "none"
       /\ calc' = [calc EXCEPT
              !.op = "initVelocityConstraints",
              !.in = calc.out,
              !.out = CASE calc.out.joint.type = "friction" ->
                               FrictionJoint_initVelocityConstraints(
                                   calc.out.joint, calc.out.bodyA, calc.out.bodyB, calc.step)
                        [] calc.out.joint.type = "weld" ->
                               WeldJoint_initVelocityConstraints(
                                   calc.out.joint, calc.out.bodyA, calc.out.bodyB, calc.step)
                        [] calc.out.joint.type = "pulley" ->
                               PulleyJoint_initVelocityConstraints(
                                   calc.out.joint, calc.out.bodyA, calc.out.bodyB, calc.step)
                        [] calc.out.joint.type = "rope" ->
                               RopeJoint_initVelocityConstraints(
                                   calc.out.joint, calc.out.bodyA, calc.out.bodyB, calc.step)]
       /\ UNCHANGED exceptCalcVars
    \/ /\ calc.op = "initVelocityConstraints"
       /\ calc' = [calc EXCEPT
              !.op = "integrate",
              !.in = calc.out,
              !.out.bodyA.a.turns = @ + 1,
              !.out.bodyB.a.turns = @ + 1]
       /\ UNCHANGED exceptCalcVars
    \/ /\ calc.op \in {"initVelocityConstraints", "integrate"}
       /\ calc' = [calc EXCEPT
              !.op = "solvePositionConstraints",
              !.in = calc.out,
              !.out = CASE calc.out.joint.type = "friction" ->
                               FrictionJoint_solvePositionConstraints(
                                   calc.out.joint, calc.out.bodyA, calc.out.bodyB)
                        [] calc.out.joint.type = "weld" ->
                               WeldJoint_solvePositionConstraints(
                                   calc.out.joint, calc.out.bodyA, calc.out.bodyB)
                        [] calc.out.joint.type = "pulley" ->
                               PulleyJoint_solvePositionConstraints(
                                   calc.out.joint, calc.out.bodyA, calc.out.bodyB)
                        [] calc.out.joint.type = "rope" ->
                               RopeJoint_solvePositionConstraints(
                                   calc.out.joint, calc.out.bodyA, calc.out.bodyB)]
       /\ UNCHANGED exceptCalcVars

\* the accumulated impulse of a joint as one tuple, linear part first
Impulse(joint) ==
    CASE joint.type = "friction" ->
             <<joint.m_linearImpulse[1], joint.m_linearImpulse[2], joint.m_angularImpulse>>
      [] joint.type = "weld" -> joint.m_impulse
      [] joint.type \in {"pulley", "rope"} -> <<joint.m_impulse>>

\* C16: with step.warmStarting set, initVelocityConstraints multiplies every
\* component of the accumulated impulse, linear and angular, by step.dtRatio.
C16_WarmStartScalesImpulse ==
    (calc.op = "initVelocityConstraints" /\ calc.step.warmStarting) =>
        \A k \in DOMAIN Impulse(calc.in.joint) :
            Impulse(calc.out.joint)[k] = QMul(calc.step.dtRatio, Impulse(calc.in.joint)[k])

\* the world points of a joint's two anchors, from the bodies as they are now
AnchorA(scene) ==
    add(scene.bodyA.c,
        Rot_mulVec2(Rot_neo(scene.bodyA.a),
                    sub(scene.joint.m_localAnchorA, scene.joint.m_localCenterA)))

AnchorB(scene) ==
    add(scene.bodyB.c,
        Rot_mulVec2(Rot_neo(scene.bodyB.a),
                    sub(scene.joint.m_localAnchorB, scene.joint.m_localCenterB)))

\* the linear position error of a joint's constraint: how far the rope is
\* over its length, how far the pulley's two segments are from the constant,
\* how far apart the weld's anchors are
LinearError(scene) ==
    CASE scene.joint.type = "rope" ->
             QSub(length(sub(AnchorB(scene), AnchorA(scene))), scene.joint.m_maxLength)
      [] scene.joint.type = "pulley" ->
             math_abs(QSub(QSub(scene.joint.m_constant,
                                length(sub(AnchorA(scene), scene.joint.m_groundAnchorA))),
                           QMul(scene.joint.m_ratio,
                                length(sub(AnchorB(scene), scene.joint.m_groundAnchorB)))))
      [] scene.joint.type = "weld" ->
             length(sub(AnchorB(scene), AnchorA(scene)))
      [] scene.joint.type = "friction" -> Q(0)

\* the angular position error: the weld's relative angle against its reference
AngularError(scene) ==
    IF scene.joint.type = "weld"
    THEN math_abs(QSub(AngleMinus(scene.bodyB.a, scene.bodyA.a), scene.joint.m_referenceAngle))
    ELSE Q(0)

WithinTolerance(scene) ==
    /\ QLessEq(LinearError(scene), Settings_linearSlop)
    /\ QLessEq(AngularError(scene), Settings_angularSlop)

\* C17: solvePositionConstraints returns true exactly when the position error
\* is at most the tolerance, the error equal to the tolerance included; the
\* friction joint returns true and moves no body.
C17_SolvedIffWithinTolerance ==
    calc.op = "solvePositionConstraints" =>
        /\ calc.out.ret <=> WithinTolerance(calc.in)
        /\ calc.in.joint.type = "friction" =>
               /\ calc.out.bodyA = calc.in.bodyA
               /\ calc.out.bodyB = calc.in.bodyB

\* the pulley joint with the arms m_rA, m_rB as the bodies' angles give them now
WithFreshArms(scene) ==
    [scene.joint EXCEPT
        !.m_rA = Rot_mulVec2(Rot_neo(scene.bodyA.a),
                             sub(scene.joint.m_localAnchorA, scene.joint.m_localCenterA)),
        !.m_rB = Rot_mulVec2(Rot_neo(scene.bodyB.a),
                             sub(scene.joint.m_localAnchorB, scene.joint.m_localCenterB))]

\* what a solver callback leaves of the bodies, and what it returns
Outcome(scene) == [bodyA |-> scene.bodyA, bodyB |-> scene.bodyB, ret |-> scene.ret]

\* C18: PulleyJoint.solvePositionConstraints works from the arms computed in
\* the call from the bodies' current angles, so what it does is what it would
\* do had the cached arms m_rA, m_rB been those of the current angles.
C18_PulleyUsesFreshArms ==
    (calc.op = "solvePositionConstraints" /\ calc.in.joint.type = "pulley") =>
        Outcome(calc.out)
            = Outcome(PulleyJoint_solvePositionConstraints(
                          WithFreshArms(calc.in), calc.in.bodyA, calc.in.bodyB))

----------------------------------------------------------------------------
(* Inverses and solves of Mat22 and Mat33, on JavaScript numbers            *)
(*                                                                          *)
(* A number is Num(q) with q an exact fraction, Inf(1), Inf(-1) or NaN.     *)
(* Rounding is left out; the range is kept: a result whose magnitude        *)
(* exceeds Number_MAX_VALUE is an infinity, as a double's is, and zero      *)
(* times an infinity is NaN.                                                *)

Number_MAX_VALUE == 100

\* the double a result is stored as
Double(q) ==
    IF QGreater(math_abs(q), Q(Number_MAX_VALUE))
    THEN Inf(IF q.n > 0 THEN 1 ELSE -1)
    ELSE Num(q)

Sign(x) ==
    IF x.kind = "Infinity" THEN x.sign
    ELSE IF x.val.n > 0 THEN 1 ELSE IF x.val.n < 0 THEN -1 ELSE 0

\* a * b
NumTimes(a, b) ==
    IF a.kind = "NaN" \/ b.kind = "NaN" THEN NaN
    ELSE IF a.kind = "number" /\ b.kind = "number" THEN Double(QMul(a.val, b.val))
    ELSE IF Sign(a) * Sign(b) = 0 THEN NaN
    ELSE Inf(Sign(a) * Sign(b))

\* a + b
NumPlus(a, b) ==
    IF a.kind = "NaN" \/ b.kind = "NaN" THEN NaN
    ELSE IF a.kind = "number" /\ b.kind = "number" THEN Double(QAdd(a.val, b.val))
    ELSE IF a.kind = "Infinity" /\ b.kind = "Infinity"
         THEN IF a.sign = b.sign THEN a ELSE NaN
    ELSE IF a.kind = "Infinity" THEN a ELSE b

\* -a
NumNeg(a) ==
    IF a.kind = "NaN" THEN NaN
    ELSE IF a.kind = "Infinity" THEN Inf(-a.sign)
    ELSE Num(QNeg(a.val))

\* a - b
NumMinus(a, b) == NumPlus(a, NumNeg(b))

\* if (det !== 0.0) { det = 1.0 / det; }
InverseUnlessZeroJS(det) ==
    IF det = Num(Q(0)) THEN det
    ELSE IF det.kind = "NaN" THEN NaN
    ELSE IF det.kind = "Infinity" THEN Num(Q(0))
    ELSE Double(QDiv(Q(1), det.val))

\* a * d - b * c
Det2JS(a, b, c, d) == NumMinus(NumTimes(a, d), NumTimes(b, c))

\* Mat22.getInverse, of this = [ex, ey]
Mat22_getInverseJS(this) ==
    LET a == this.ex[1]
        b == this.ey[1]
        c == this.ex[2]
        d == this.ey[2]
        det == InverseUnlessZeroJS(Det2JS(a, b, c, d))
    IN  [ex |-> <<NumTimes(det, d), NumTimes(NumNeg(det), c)>>,
         ey |-> <<NumTimes(NumNeg(det), b), NumTimes(det, a)>>]

\* Mat22.solve(v)
Mat22_solveJS(this, v) ==
    LET a == this.ex[1]
        b == this.ey[1]
        c == this.ex[2]
        d == this.ey[2]
        det == InverseUnlessZeroJS(Det2JS(a, b, c, d))
    IN  <<NumTimes(det, NumMinus(NumTimes(d, v[1]), NumTimes(b, v[2]))),
          NumTimes(det, NumMinus(NumTimes(a, v[2]), NumTimes(c, v[1])))>>

\* Vec3.dot and Vec3.cross
Vec3_dotJS(v, w) == NumPlus(NumPlus(NumTimes(v[1], w[1]), NumTimes(v[2], w[2])), NumTimes(v[3], w[3]))

Vec3_crossJS(v, w) ==
    <<NumMinus(NumTimes(v[2], w[3]), NumTimes(v[3], w[2])),
      NumMinus(NumTimes(v[3], w[1]), NumTimes(v[1], w[3])),
      NumMinus(NumTimes(v[1], w[2]), NumTimes(v[2], w[1]))>>

\* Mat33.solve33(v), of this = [ex, ey, ez]
Mat33_solve33JS(this, v) ==
    LET det == InverseUnlessZeroJS(Vec3_dotJS(this.ex, Vec3_crossJS(this.ey, this.ez)))
    IN  <<NumTimes(det, Vec3_dotJS(v, Vec3_crossJS(this.ey, this.ez))),
          NumTimes(det, Vec3_dotJS(this.ex, Vec3_crossJS(v, this.ez))),
          NumTimes(det, Vec3_dotJS(this.ex, Vec3_crossJS(this.ey, v)))>>

\* Mat33.solve22(v)
Mat33_solve22JS(this, v) ==
    LET a11 == this.ex[1]
        a12 == this.ey[1]
        a21 == this.ex[2]
        a22 == this.ey[2]
        det == InverseUnlessZeroJS(Det2JS(a11, a12, a21, a22))
    IN  <<NumTimes(det, NumMinus(NumTimes(a22, v[1]), NumTimes(a12, v[2]))),
          NumTimes(det, NumMinus(NumTimes(a11, v[2]), NumTimes(a21, v[1])))>>

\* Mat33.getInverse22(M): the matrix M is left as
Mat33_getInverse22JS(this) ==
    LET a == this.ex[1]
        b == this.ey[1]
        c == this.ex[2]
        d == this.ey[2]
        det == InverseUnlessZeroJS(Det2JS(a, b, c, d))
    IN  [ex |-> <<NumTimes(det, d), NumTimes(NumNeg(det), c), Num(Q(0))>>,
         ey |-> <<NumTimes(NumNeg(det), b), NumTimes(det, a), Num(Q(0))>>,
         ez |-> <<Num(Q(0)), Num(Q(0)), Num(Q(0))>>]

\* Mat33.getSymInverse33(M): the matrix M is left as
Mat33_getSymInverse33JS(this) ==
    LET det == InverseUnlessZeroJS(Vec3_dotJS(this.ex, Vec3_crossJS(this.ey, this.ez)))
        a11 == this.ex[1]
        a12 == this.ey[1]
        a13 == this.ez[1]
        a22 == this.ey[2]
        a23 == this.ez[2]
        a33 == this.ez[3]
        ex1 == NumTimes(det, NumMinus(NumTimes(a22, a33), NumTimes(a23, a23)))
        ex2 == NumTimes(det, NumMinus(NumTimes(a13, a23), NumTimes(a12, a33)))
        ex3 == NumTimes(det, NumMinus(NumTimes(a12, a23), NumTimes(a13, a22)))
        ey2 == NumTimes(det, NumMinus(NumTimes(a11, a33), NumTimes(a13, a13)))
        ey3 == NumTimes(det, NumMinus(NumTimes(a13, a12), NumTimes(a11, a23)))
        ez3 == NumTimes(det, NumMinus(NumTimes(a11, a22), NumTimes(a12, a12)))
    IN  [ex |-> <<ex1, ex2, ex3>>, ey |-> <<ex2, ey2, ey3>>, ez |-> <<ex3, ey3, ez3>>]

\* the matrices and right-hand sides the functions are called on: finite
\* entries, small and large, singular matrices and regular ones
Columns2 == { <<Num(Q(x)), Num(Q(y))>> : x, y \in {0, 1, 2, 20} }

Columns3 ==
    { <<Num(Q(c[1])), Num(Q(c[2])), Num(Q(c[3]))>> :
          c \in { <<0, 0, 0>>, <<1, 0, 0>>, <<0, 1, 0>>, <<0, 0, 1>>,
                  <<2, 1, 0>>, <<1, 2, 1>>, <<20, 20, 0>>, <<0, 20, 20>> } }

SolveInputs ==
    { [m |-> [ex |-> x, ey |-> y], v |-> v] :
          x \in Columns2, y \in Columns2, v \in { <<Num(Q(1)), Num(Q(0))>>, <<Num(Q(20)), Num(Q(2))>> } }
    \cup
    { [m |-> [ex |-> x, ey |-> y, ez |-> z], v |-> v] :
          x \in Columns3, y \in Columns3, z \in Columns3,
          v \in { <<Num(Q(1)), Num(Q(0)), Num(Q(2))>>, <<Num(Q(20)), Num(Q(2)), Num(Q(0))>> } }

\* one call of one of the six functions on the matrix drawn
NextSolve ==
    \/ /\ CalcStep
       /\ "ez" \notin DOMAIN calc.in.m
       /\ calc' = [calc EXCEPT !.op = "Mat22.getInverse",
                               !.out = Mat22_getInverseJS(calc.in.m)]
    \/ /\ CalcStep
       /\ "ez" \notin DOMAIN calc.in.m
       /\ calc' = [calc EXCEPT !.op = "Mat22.solve",
                               !.out = Mat22_solveJS(calc.in.m, calc.in.v)]
    \/ /\ CalcStep
       /\ "ez" \in DOMAIN calc.in.m
       /\ calc' = [calc EXCEPT !.op = "Mat33.solve33",
                               !.out = Mat33_solve33JS(calc.in.m, calc.in.v)]
    \/ /\ CalcStep
       /\ "ez" \in DOMAIN calc.in.m
       /\ calc' = [calc EXCEPT !.op = "Mat33.solve22",
                               !.out = Mat33_solve22JS(calc.in.m, <<calc.in.v[1], calc.in.v[2]>>)]
    \/ /\ CalcStep
       /\ "ez" \in DOMAIN calc.in.m
       /\ calc' = [calc EXCEPT !.op = "Mat33.getInverse22",
                               !.out = Mat33_getInverse22JS(calc.in.m)]
    \/ /\ CalcStep
       /\ "ez" \in DOMAIN calc.in.m
       /\ calc' = [calc EXCEPT !.op = "Mat33.getSymInverse33",
                               !.out = Mat33_getSymInverse33JS(calc.in.m)]

\* the determinant the function called computes: of the whole matrix, or of
\* its upper left 2-by-2 block
Determinant(m, op) ==
    IF op \in {"Mat33.solve33", "Mat33.getSymInverse33"}
    THEN Vec3_dotJS(m.ex, Vec3_crossJS(m.ey, m.ez))
    ELSE Det2JS(m.ex[1], m.ey[1], m.ex[2], m.ey[2])

\* every number of a vector, of a matrix, of what the function called returned
VectorEntries(v) == { v[i] : i \in DOMAIN v }

MatrixEntries(m) == UNION { VectorEntries(m[f]) : f \in DOMAIN m }

Returned ==
    IF calc.op \in {"Mat22.getInverse", "Mat33.getInverse22", "Mat33.getSymInverse33"}
    THEN MatrixEntries(calc.out)
    ELSE VectorEntries(calc.out)

\* C19: on a matrix of finite entries whose determinant is exactly 0, the
\* inverses are the zero matrix and the solves return the zero vector.
C19_SingularGivesZero ==
    (calc.op \in {"Mat22.getInverse", "Mat22.solve", "Mat33.solve33", "Mat33.solve22",
                  "Mat33.getInverse22", "Mat33.getSymInverse33"}
        /\ Determinant(calc.in.m, calc.op) = Num(Q(0)))
    => Returned = { Num(Q(0)) }

----------------------------------------------------------------------------
(* Distance between two circles                                             *)
(*                                                                          *)
(* A proxy is a set of vertices and a radius; a circle's proxy is its       *)
(* centre alone.  With one vertex on each side the simplex is that pair of  *)
(* vertices and the closest points are the two centres.  Transforms are     *)
(* translations here: a circle about its own origin looks the same at any   *)
(* angle.                                                                   *)

\* the tolerance under which two shapes count as overlapping: a small positive
\* number, here a coarse one, below the 0.1 the test measures
EPSILON == Frac(1, 20)

\* a circle's proxy: proxy.set(new CircleShape(radius), 0)
CircleProxy(radius) == [vertices |-> <<Zero2>>, radius |-> radius]

DistanceInput(proxyA, proxyB, pA, pB, useRadii) ==
    [proxyA |-> proxyA, proxyB |-> proxyB,
     transformA |-> [p |-> pA], transformB |-> [p |-> pB], useRadii |-> useRadii]

\* Distance with the overlap rule left out: the distance less the radii, as is
Distance_noOverlap(input) ==
    LET wA == add(input.transformA.p, input.proxyA.vertices[1])
        wB == add(input.transformB.p, input.proxyB.vertices[1])
    IN  [pointA |-> wA, pointB |-> wB,
         distance |-> QSub(length(sub(wB, wA)),
                           QAdd(input.proxyA.radius, input.proxyB.radius))]

\* Distance(output, cache, input), for proxies of one vertex: the output
Distance(input) ==
    LET wA == add(input.transformA.p, input.proxyA.vertices[1])
        wB == add(input.transformB.p, input.proxyB.vertices[1])
        distance == length(sub(wB, wA))
        rA == input.proxyA.radius
        rB == input.proxyB.radius
        adjusted == QSub(distance, QAdd(rA, rB))
        normal == mulNumVec2(QDiv(Q(1), distance), sub(wB, wA))
        middle == mulNumVec2(Frac(1, 2), add(wA, wB))
    IN  IF ~input.useRadii
        THEN [pointA |-> wA, pointB |-> wB, distance |-> distance]
        ELSE IF QLessEq(adjusted, EPSILON)
        THEN [pointA |-> middle, pointB |-> middle, distance |-> Q(0)]
        ELSE [pointA |-> addMul(wA, rA, normal), pointB |-> subMul(wB, rB, normal),
              distance |-> adjusted]

\* the circles measured: apart, touching, overlapping, and the two of the test
Radii == { Q(0), Frac(1, 2), Q(1) }

Centres ==
    { <<Q(0), Q(0)>>, <<Q(1), Q(0)>>, <<Frac(19, 10), Q(0)>>, <<Q(2), Q(0)>>,
      <<Frac(41, 20), Q(0)>>, <<Frac(21, 10), Q(0)>>, <<Q(3), Q(0)>>,
      <<Q(0), Frac(1, 20)>>, <<Frac(6, 5), Frac(8, 5)>>, <<Q(3), Q(4)>> }

DistanceInputs ==
    { DistanceInput(CircleProxy(rA), CircleProxy(rB), Zero2, p, u) :
          rA \in Radii, rB \in Radii, p \in Centres, u \in BOOLEAN }

NextDistance ==
    /\ CalcStep
    /\ calc' = [calc EXCEPT !.op = "Distance", !.out = Distance(calc.in)]

\* how far apart the two circles' rims are: negative when they overlap
Gap(input) ==
    QSub(length(sub(input.transformB.p, input.transformA.p)),
         QAdd(input.proxyA.radius, input.proxyB.radius))

----------------------------------------------------------------------------
(* isValid and assert of Vec2, Vec3, Mat22, Mat33 and AABB, on JavaScript   *)
(* values                                                                   *)

\* Vec3.isValid(obj)
Vec3_isValid(obj) ==
    IF obj = Null \/ obj = Undefined THEN FALSE
    ELSE IsFinite(Get(obj, "x")) /\ IsFinite(Get(obj, "y")) /\ IsFinite(Get(obj, "z"))

\* Mat22.isValid(obj)
Mat22_isValid(obj) ==
    IF obj = Null \/ obj = Undefined THEN FALSE
    ELSE Vec2_isValid(Get(obj, "ex")) /\ Vec2_isValid(Get(obj, "ey"))

\* Mat33.isValid(obj)
Mat33_isValid(obj) ==
    IF obj = Null \/ obj = Undefined THEN FALSE
    ELSE Vec3_isValid(Get(obj, "ex")) /\ Vec3_isValid(Get(obj, "ey"))
             /\ Vec3_isValid(Get(obj, "ez"))

\* console.assert(condition, message): the message is written when the
\* condition is false
console_assert(condition) == ~condition

\* Vec2.assert(o), Vec3.assert(o), Mat22.assert(o), Mat33.assert(o) and
\* AABB.assert(o) with _ASSERT as given: whether the diagnostic is written
Vec2_assert(ASSERT, o) == ASSERT /\ console_assert(~Vec2_isValid(o))

Vec3_assert(ASSERT, o) == ASSERT /\ console_assert(~Vec3_isValid(o))

Mat22_assert(ASSERT, o) == ASSERT /\ console_assert(~Mat22_isValid(o))

Mat33_assert(ASSERT, o) == ASSERT /\ console_assert(~Mat33_isValid(o))

AABB_assert(ASSERT, o) == ASSERT /\ console_assert(~AABB_isValid(o))

\* a matrix with the columns given
MatrixOf(kind, columns) == [kind |-> kind, props |-> columns]

\* the values checked: null, undefined, arrays and objects with coordinates
\* finite or not, matrices of such columns, the matrices the constructors
\* give, and boxes
Coords == { Num(0), Num(2), NaN, Inf(1) }

Pairs == { Array2(x, y) : x \in Coords, y \in Coords } \cup { ObjectXY(Num(0), Num(2)) }

Triples ==
    { Array3(x, y, z) : x \in Coords, y \in Coords, z \in Coords }
    \cup { ObjectXYZ(Num(0), Num(0), Num(2)), ObjectXYZ(Num(0), NaN, Num(2)) }

SomePairs == { Array2(Num(0), Num(2)), Array2(NaN, Num(0)), Null }

SomeTriples ==
    { Array3(Num(0), Num(0), Num(2)), Array3(Num(0), Inf(1), Num(0)),
      ObjectXYZ(Num(0), Num(0), Num(2)) }

Checked ==
    { [type |-> "Vec2", arg |-> v] : v \in Pairs \cup {Null, Undefined} }
    \cup { [type |-> "Vec3", arg |-> v] : v \in Triples \cup {Null, Undefined} }
    \cup { [type |-> "Mat22", arg |-> m] :
               m \in { MatrixOf("Mat22", [ex |-> x, ey |-> y]) : x \in SomePairs, y \in SomePairs }
                     \cup { Mat22_new(Num(0), Num(0), Num(0), Num(0)), Null, Undefined } }
    \cup { [type |-> "Mat33", arg |-> m] :
               m \in { MatrixOf("Mat33", [ex |-> x, ey |-> y, ez |-> z]) :
                           x \in SomeTriples, y \in SomeTriples, z \in SomeTriples }
                     \cup { Mat33_new(Undefined, Undefined, Undefined), Null, Undefined } }
    \cup { [type |-> "AABB", arg |-> b] :
               b \in { AABB_newJS(Array2(a, Num(0)), Array2(c, Num(2))) : a \in Coords, c \in Coords }
                     \cup { AABB_newJS(Undefined, Undefined), Null, Undefined } }

\* one call of isValid, or of assert with assertions enabled or not
NextValidity ==
    \/ /\ CalcStep
       /\ calc' = [calc EXCEPT
              !.op = "isValid",
              !.out = CASE calc.in.type = "Vec2" -> Vec2_isValid(calc.in.arg)
                        [] calc.in.type = "Vec3" -> Vec3_isValid(calc.in.arg)
                        [] calc.in.type = "Mat22" -> Mat22_isValid(calc.in.arg)
                        [] calc.in.type = "Mat33" -> Mat33_isValid(calc.in.arg)
                        [] calc.in.type = "AABB" -> AABB_isValid(calc.in.arg)]
    \/ \E ASSERT \in BOOLEAN :
           /\ CalcStep
           /\ calc' = [calc EXCEPT
                  !.op = IF ASSERT THEN "assert" ELSE "assert, disabled",
                  !.out = CASE calc.in.type = "Vec2" -> Vec2_assert(ASSERT, calc.in.arg)
                            [] calc.in.type = "Vec3" -> Vec3_assert(ASSERT, calc.in.arg)
                            [] calc.in.type = "Mat22" -> Mat22_assert(ASSERT, calc.in.arg)
                            [] calc.in.type = "Mat33" -> Mat33_assert(ASSERT, calc.in.arg)
                            [] calc.in.type = "AABB" -> AABB_assert(ASSERT, calc.in.arg)]

\* v is an array whose first n entries are finite numbers
FiniteEntries(v, n) ==
    /\ v.kind \in {"array", "object"}
    /\ \A k \in { "0", "1", "2" } :
           (k = "2" => n = 3) => (k \in DOMAIN v.props /\ v.props[k].kind = "number")

\* every column of the matrix m has n finite entries
FiniteColumns(m, n) ==
    /\ m.kind \in {"Mat22", "Mat33"}
    /\ \A c \in DOMAIN m.props : FiniteEntries(m.props[c], n)

\* C21: Vec2.isValid and Vec3.isValid are true exactly for a non-null value
\* whose entries [0], [1] (and [2]) are finite numbers, Mat22.isValid and
\* Mat33.isValid exactly for matrices whose columns are such.
C21_IsValidFiniteEntries ==
    (calc.op = "isValid" /\ calc.in.type # "AABB") =>
        (calc.out <=>
            CASE calc.in.type = "Vec2" -> FiniteEntries(calc.in.arg, 2)
              [] calc.in.type = "Vec3" -> FiniteEntries(calc.in.arg, 3)
              [] calc.in.type = "Mat22" -> FiniteColumns(calc.in.arg, 2)
              [] calc.in.type = "Mat33" -> FiniteColumns(calc.in.arg, 3))

\* the value checked is valid: not null, its coordinates finite and, for a
\* box, the lower bound not above the upper bound
Valid(in) ==
    CASE in.type = "Vec2" -> FiniteEntries(in.arg, 2)
      [] in.type = "Vec3" -> FiniteEntries(in.arg, 3)
      [] in.type = "Mat22" -> FiniteColumns(in.arg, 2)
      [] in.type = "Mat33" -> FiniteColumns(in.arg, 3)
      [] in.type = "AABB" -> in.arg # Null /\ SortedBounds(in.arg)

\* C29: with assertions enabled, Vec2.assert, Vec3.assert, AABB.assert,
\* Mat22.assert and Mat33.assert write their diagnostic exactly when the
\* argument is not valid, and nothing for a valid argument.
C29_AssertRaisesOnInvalid ==
    calc.op = "assert" => (calc.out <=> ~Valid(calc.in))

----------------------------------------------------------------------------
(* Joints: solveVelocityConstraints, and the callbacks in any order *)

\* a solveVelocityConstraints that sets the limit state from the impulse
RopeJoint_solveVelocityConstraints_setsState(this, bodyA, bodyB, step) ==
    Solved([this EXCEPT !.m_state = IF QLess(this.m_impulse, Q(0))
                                    THEN "atLowerLimit" ELSE "inactiveLimit"],
           bodyA, bodyB, FALSE)

\* a solveVelocityConstraints that accumulates the impulse unclamped
RopeJoint_solveVelocityConstraints_pushes(this, bodyA, bodyB, step) ==
    LET vpA == add(bodyA.v, <<QMul(QNeg(bodyA.w), this.m_rA[2]), QMul(bodyA.w, this.m_rA[1])>>)
        vpB == add(bodyB.v, <<QMul(QNeg(bodyB.w), this.m_rB[2]), QMul(bodyB.w, this.m_rB[1])>>)
        d == sub(vpB, vpA)
        impulse == QMul(QNeg(this.m_mass), QDot2(this.m_u[1], d[1], this.m_u[2], d[2]))
        P == mulNumVec2(impulse, this.m_u)
    IN  Solved([this EXCEPT !.m_impulse = QAdd(@, impulse)],
               WithVelocity(bodyA, subMul(bodyA.v, this.m_invMassA, P),
                            QSub(bodyA.w, QMul(this.m_invIA, crossVec2Vec2(this.m_rA, P)))),
               WithVelocity(bodyB, addMul(bodyB.v, this.m_invMassB, P),
                            QAdd(bodyB.w, QMul(this.m_invIB, crossVec2Vec2(this.m_rB, P)))),
               FALSE)

\* RopeJoint.solveVelocityConstraints(step)
RopeJoint_solveVelocityConstraints(this, bodyA, bodyB, step) ==
    LET vA == bodyA.v
        wA == bodyA.w
        vB == bodyB.v
        wB == bodyB.w
        \* Vec2.addCrossNumVec2(v, w, r)
        vpA == add(vA, <<QMul(QNeg(wA), this.m_rA[2]), QMul(wA, this.m_rA[1])>>)
        vpB == add(vB, <<QMul(QNeg(wB), this.m_rB[2]), QMul(wB, this.m_rB[1])>>)
        C == QSub(this.m_length, this.m_maxLength)
        d == sub(vpB, vpA)
        Cdot0 == QDot2(this.m_u[1], d[1], this.m_u[2], d[2])
        Cdot == IF QLess(C, Q(0)) THEN QAdd(Cdot0, QMul(step.inv_dt, C)) ELSE Cdot0
        impulse0 == QMul(QNeg(this.m_mass), Cdot)
        oldImpulse == this.m_impulse
        sum == QAdd(this.m_impulse, impulse0)
        m_impulse == IF QLess(sum, Q(0)) THEN sum ELSE Q(0)
        impulse == QSub(m_impulse, oldImpulse)
        P == mulNumVec2(impulse, this.m_u)
    IN  Solved([this EXCEPT !.m_impulse = m_impulse],
               WithVelocity(bodyA, subMul(vA, this.m_invMassA, P),
                            QSub(wA, QMul(this.m_invIA, crossVec2Vec2(this.m_rA, P)))),
               WithVelocity(bodyB, addMul(vB, this.m_invMassB, P),
                            QAdd(wB, QMul(this.m_invIB, crossVec2Vec2(this.m_rB, P)))),
               FALSE)

\* a solveVelocityConstraints that accumulates what the constraint asks for
FrictionJoint_solveVelocityConstraints_unclamped(this, bodyA, bodyB, step) ==
    LET Cdot == sub(bodyB.v, bodyA.v)
        mx == this.m_linearMass
    IN  Solved([this EXCEPT
                    !.m_angularImpulse =
                        QSub(@, QMul(this.m_angularMass, QSub(bodyB.w, bodyA.w))),
                    !.m_linearImpulse =
                        sub(@, <<QDot2(mx.ex[1], Cdot[1], mx.ey[1], Cdot[2]),
                                 QDot2(mx.ex[2], Cdot[1], mx.ey[2], Cdot[2])>>)],
               bodyA, bodyB, FALSE)

\* FrictionJoint.solveVelocityConstraints(step), its statements from the last
\* to the first. oldImpulse of the linear part is the array m_linearImpulse
\* itself, not a copy of it, so it holds the new accumulated impulse by the
\* time the difference is taken
FrictionJoint_solveVelocityConstraints(this, bodyA, bodyB, step) ==
    LET vA == bodyA.v
        vB == bodyB.v
        mA == this.m_invMassA
        mB == this.m_invMassB
        iA == this.m_invIA
        iB == this.m_invIB
        h == step.dt
        \* clamp(num, min, max)
        clamp(num, min, max) ==
            IF QLess(num, min) THEN min ELSE IF QGreater(num, max) THEN max ELSE num
        \* impulse = Vec2.sub(this.m_linearImpulse, oldImpulse), and the
        \* velocities written
        Applied(m_angularImpulse, wA, wB, m_linearImpulse) ==
            LET oldImpulse == m_linearImpulse
                impulse == sub(m_linearImpulse, oldImpulse)
            IN  Solved([this EXCEPT !.m_angularImpulse = m_angularImpulse,
                                    !.m_linearImpulse = m_linearImpulse],
                       WithVelocity(bodyA, subMul(vA, mA, impulse),
                                    QSub(wA, QMul(iA, crossVec2Vec2(this.m_rA, impulse)))),
                       WithVelocity(bodyB, addMul(vB, mB, impulse),
                                    QAdd(wB, QMul(iB, crossVec2Vec2(this.m_rB, impulse)))),
                       FALSE)
        \* Vec2.normalize writes nothing for a length under its epsilon
        Normalized(v, len) == IF BelowEpsilon(len) THEN v ELSE mulNumVec2(QDiv(Q(1), len), v)
        \* the accumulated linear impulse, cut to maxImpulse
        Limited(m_angularImpulse, wA, wB, added, maxImpulse) ==
            Applied(m_angularImpulse, wA, wB,
                    IF QGreater(QDot2(added[1], added[1], added[2], added[2]),
                                QMul(maxImpulse, maxImpulse))
                    THEN mulNumVec2(maxImpulse, Normalized(added, length(added)))
                    ELSE added)
        \* linear friction, with wA and wB of the angular friction
        Linear(m_angularImpulse, wA, wB) ==
            LET Cdot == sub(add(vB, <<QMul(QNeg(wB), this.m_rB[2]), QMul(wB, this.m_rB[1])>>),
                            add(vA, <<QMul(QNeg(wA), this.m_rA[2]), QMul(wA, this.m_rA[1])>>))
                mx == this.m_linearMass
                impulse == <<QNeg(QDot2(mx.ex[1], Cdot[1], mx.ey[1], Cdot[2])),
                             QNeg(QDot2(mx.ex[2], Cdot[1], mx.ey[2], Cdot[2]))>>
            IN  Limited(m_angularImpulse, wA, wB, add(this.m_linearImpulse, impulse),
                        QMul(h, this.m_maxForce))
        \* angular friction, with the accumulated angular impulse clamped
        Angular(m_angularImpulse, impulse) ==
            Linear(m_angularImpulse, QSub(bodyA.w, QMul(iA, impulse)),
                   QAdd(bodyB.w, QMul(iB, impulse)))
        Clamped(m_angularImpulse) ==
            Angular(m_angularImpulse, QSub(m_angularImpulse, this.m_angularImpulse))
        Cdot == QSub(bodyB.w, bodyA.w)
        maxImpulse == QMul(h, this.m_maxTorque)
    IN  Clamped(clamp(QAdd(this.m_angularImpulse, QMul(QNeg(this.m_angularMass), Cdot)),
                      QNeg(maxImpulse), maxImpulse))

\* WeldJoint.solveVelocityConstraints(step), with m_frequencyHz 0.0
WeldJoint_solveVelocityConstraints(this, bodyA, bodyB, step) ==
    LET vA == bodyA.v
        wA == bodyA.w
        vB == bodyB.v
        wB == bodyB.w
        mA == this.m_invMassA
        mB == this.m_invMassB
        iA == this.m_invIA
        iB == this.m_invIB
        Cdot1 == sub(add(vB, <<QMul(QNeg(wB), this.m_rB[2]), QMul(wB, this.m_rB[1])>>),
                     add(vA, <<QMul(QNeg(wA), this.m_rA[2]), QMul(wA, this.m_rA[1])>>))
        Cdot2 == QSub(wB, wA)
        Cdot == <<Cdot1[1], Cdot1[2], Cdot2>>
        a == this.m_mass
        \* Vec3.neg(Mat33.mulVec3(this.m_mass, Cdot))
        impulse == [i \in 1..3 |->
                       QNeg(QAdd(QAdd(QMul(a.ex[i], Cdot[1]), QMul(a.ey[i], Cdot[2])),
                                 QMul(a.ez[i], Cdot[3])))]
        m_impulse == [i \in 1..3 |-> QAdd(this.m_impulse[i], impulse[i])]
        P == <<impulse[1], impulse[2]>>
    IN  Solved([this EXCEPT !.m_impulse = m_impulse],
               WithVelocity(bodyA, subMul(vA, mA, P),
                            QSub(wA, QMul(iA, QAdd(crossVec2Vec2(this.m_rA, P), impulse[3])))),
               WithVelocity(bodyB, addMul(vB, mB, P),
                            QAdd(wB, QMul(iB, QAdd(crossVec2Vec2(this.m_rB, P), impulse[3])))),
               FALSE)

\* a solveVelocityConstraints that takes both bodies to have unit mass
PulleyJoint_solveVelocityConstraints_unitMass(this, bodyA, bodyB, step) ==
    LET Cdot == QSub(QNeg(QDot2(this.m_uA[1], bodyA.v[1], this.m_uA[2], bodyA.v[2])),
                     QMul(this.m_ratio, QDot2(this.m_uB[1], bodyB.v[1], this.m_uB[2], bodyB.v[2])))
        impulse == QMul(QNeg(this.m_mass), Cdot)
    IN  Solved([this EXCEPT !.m_impulse = QAdd(@, impulse)],
               WithVelocity(bodyA, addMul(bodyA.v, Q(1), mulNumVec2(QNeg(impulse), this.m_uA)),
                            bodyA.w),
               WithVelocity(bodyB, addMul(bodyB.v, Q(1),
                                          mulNumVec2(QMul(QNeg(this.m_ratio), impulse), this.m_uB)),
                            bodyB.w),
               FALSE)

\* PulleyJoint.solveVelocityConstraints(step)
PulleyJoint_solveVelocityConstraints(this, bodyA, bodyB, step) ==
    LET vA == bodyA.v
        wA == bodyA.w
        vB == bodyB.v
        wB == bodyB.w
        vpA == add(vA, <<QMul(QNeg(wA), this.m_rA[2]), QMul(wA, this.m_rA[1])>>)
        vpB == add(vB, <<QMul(QNeg(wB), this.m_rB[2]), QMul(wB, this.m_rB[1])>>)
        Cdot == QSub(QNeg(QDot2(this.m_uA[1], vpA[1], this.m_uA[2], vpA[2])),
                     QMul(this.m_ratio, QDot2(this.m_uB[1], vpB[1], this.m_uB[2], vpB[2])))
        impulse == QMul(QNeg(this.m_mass), Cdot)
        PA == mulNumVec2(QNeg(impulse), this.m_uA)
        PB == mulNumVec2(QMul(QNeg(this.m_ratio), impulse), this.m_uB)
    IN  Solved([this EXCEPT !.m_impulse = QAdd(@, impulse)],
               WithVelocity(bodyA, addMul(vA, this.m_invMassA, PA),
                            QAdd(wA, QMul(this.m_invIA, crossVec2Vec2(this.m_rA, PA)))),
               WithVelocity(bodyB, addMul(vB, this.m_invMassB, PB),
                            QAdd(wB, QMul(this.m_invIB, crossVec2Vec2(this.m_rB, PB)))),
               FALSE)

\* a body of the solver: where it is, how it moves, and its inverse mass and
\* inertia (both 0 for a static or a kinematic body)
Body(c, v, w, invMass, invI) ==
    [localCenter |-> Zero2, m_invMass |-> invMass, m_invI |-> invI,
     c |-> c, a |-> Angle(0, Q(0)), v |-> v, w |-> w]

\* body A of the scenes: dynamic and at rest, or kinematic and moving
BodiesA ==
    { Body(Zero2, Zero2, Q(0), Q(1), Q(1)), Body(Zero2, <<Q(1), Q(2)>>, Q(1), Q(0), Q(0)) }

\* the rope joints stepped: anchor A one unit right of body A, anchor B at body
\* B; the anchors apart by linearSlop, by 5, or by 15, which is more than
\* maxLinearCorrection over the least maxLength drawn; the impulse is 0, or
\* what an earlier step accumulated
RopeScenes ==
    { Solved(With(JointFields("rope", <<Q(1), Q(0)>>, Zero2),
                  [m_maxLength |-> maxLength, m_impulse |-> impulse, m_u |-> Zero2,
                   m_length |-> Q(0), m_state |-> "inactiveLimit", m_mass |-> Q(0)]),
             bodyA, Body(cB, vB, Q(0), Q(1), Q(1)), FALSE) :
          maxLength \in { Q(0), Q(5), Q(6) },
          impulse \in { Q(0), Q(-3) },
          bodyA \in BodiesA,
          cB \in { <<QAdd(Q(1), Settings_linearSlop), Q(0)>>, <<Q(4), Q(4)>>,
                   <<Q(10), Q(12)>> },
          vB \in { <<Q(3), Q(4)>>, <<Q(-3), Q(-4)>> } }

\* the time steps of the solver
SolverSteps ==
    { [warmStarting |-> ws, dtRatio |-> Q(2), dt |-> Frac(1, 2), inv_dt |-> Q(2)] :
          ws \in BOOLEAN }

\* the calls made on one joint
MaxCalls == 3

\* the angles at which Rot_neo is exact
Exact(scene) == scene.bodyA.a.rad = Q(0) /\ scene.bodyB.a.rad = Q(0)

\* the solver's calls on a joint: initVelocityConstraints first, then any of
\* the three callbacks, in any order
NextSolver ==
    \/ /\ calc.n < MaxCalls
       /\ Exact(calc.out)
       /\ calc' = [calc EXCEPT
              !.op = "initVelocityConstraints",
              !.n = @ + 1,
              !.in = calc.out,
              !.out = CASE calc.out.joint.type = "friction" ->
                               FrictionJoint_initVelocityConstraints(
                                   calc.out.joint, calc.out.bodyA, calc.out.bodyB, calc.step)
                        [] calc.out.joint.type = "weld" ->
                               WeldJoint_initVelocityConstraints(
                                   calc.out.joint, calc.out.bodyA, calc.out.bodyB, calc.step)
                        [] calc.out.joint.type = "pulley" ->
                               PulleyJoint_initVelocityConstraints(
                                   calc.out.joint, calc.out.bodyA, calc.out.bodyB, calc.step)
                        [] calc.out.joint.type = "rope" ->
                               RopeJoint_initVelocityConstraints(
                                   calc.out.joint, calc.out.bodyA, calc.out.bodyB, calc.step)]
       /\ UNCHANGED exceptCalcVars
    \/ /\ calc.n < MaxCalls
       /\ calc.op # "none"
       /\ calc' = [calc EXCEPT
              !.op = "solveVelocityConstraints",
              !.n = @ + 1,
              !.in = calc.out,
              !.out = CASE calc.out.joint.type = "friction" ->
                               FrictionJoint_solveVelocityConstraints(
                                   calc.out.joint, calc.out.bodyA, calc.out.bodyB, calc.step)
                        [] calc.out.joint.type = "weld" ->
                               WeldJoint_solveVelocityConstraints(
                                   calc.out.joint, calc.out.bodyA, calc.out.bodyB, calc.step)
                        [] calc.out.joint.type = "pulley" ->
                               PulleyJoint_solveVelocityConstraints(
                                   calc.out.joint, calc.out.bodyA, calc.out.bodyB, calc.step)
                        [] calc.out.joint.type = "rope" ->
                               RopeJoint_solveVelocityConstraints(
                                   calc.out.joint, calc.out.bodyA, calc.out.bodyB, calc.step)]
       /\ UNCHANGED exceptCalcVars
    \/ /\ calc.n < MaxCalls
       /\ calc.op # "none"
       /\ Exact(calc.out)
       /\ calc' = [calc EXCEPT
              !.op = "solvePositionConstraints",
              !.n = @ + 1,
              !.in = calc.out,
              !.out = CASE calc.out.joint.type = "friction" ->
                               FrictionJoint_solvePositionConstraints(
                                   calc.out.joint, calc.out.bodyA, calc.out.bodyB)
                        [] calc.out.joint.type = "weld" ->
                               WeldJoint_solvePositionConstraints(
                                   calc.out.joint, calc.out.bodyA, calc.out.bodyB)
                        [] calc.out.joint.type = "pulley" ->
                               PulleyJoint_solvePositionConstraints(
                                   calc.out.joint, calc.out.bodyA, calc.out.bodyB)
                        [] calc.out.joint.type = "rope" ->
                               RopeJoint_solvePositionConstraints(
                                   calc.out.joint, calc.out.bodyA, calc.out.bodyB)]
       /\ UNCHANGED exceptCalcVars

\* the anchor distance of a rope scene: |cB + rB - cA - rA|
AnchorDistance(scene) == length(sub(AnchorB(scene), AnchorA(scene)))

\* C22: a rope joint's limit state is inactiveLimit or atUpperLimit only; it
\* is inactiveLimit after construction; after initVelocityConstraints it is
\* atUpperLimit exactly when the anchor distance of that call exceeds
\* maxLength, early return or not; the two solve callbacks leave it alone.
C22_RopeLimitState ==
    calc.out.joint.type = "rope" =>
        /\ calc.out.joint.m_state \in { "inactiveLimit", "atUpperLimit" }
        /\ calc.op = "none" => calc.out.joint.m_state = "inactiveLimit"
        /\ calc.op = "initVelocityConstraints" =>
               (calc.out.joint.m_state = "atUpperLimit"
                    <=> QGreater(AnchorDistance(calc.in), calc.in.joint.m_maxLength))
        /\ calc.op \in { "solveVelocityConstraints", "solvePositionConstraints" } =>
               calc.out.joint.m_state = calc.in.joint.m_state

\* an early return of initVelocityConstraints with the rope over its length,
\* and a solve callback after the rope reached its upper limit
C22_Witness ==
    /\ calc.out.joint.type = "rope"
    /\ \/ /\ calc.op = "initVelocityConstraints"
          /\ ~QGreater(AnchorDistance(calc.in), Settings_linearSlop)
          /\ calc.out.joint.m_state = "atUpperLimit"
       \/ /\ calc.op = "solvePositionConstraints"
          /\ calc.out.joint.m_state = "atUpperLimit"
          /\ calc.out.bodyB.c # calc.in.bodyB.c

\* how far a callback moved a body's centre
Moved(before, after) == length(sub(after.c, before.c))

\* C23: a rope joint only pulls: after solveVelocityConstraints the accumulated
\* impulse is at most 0, whatever calls came before; solvePositionConstraints
\* leaves the positions and angles of both bodies alone when the anchors are
\* no further apart than maxLength, and moves neither body's centre by more
\* than maxLinearCorrection otherwise.
C23_RopeOnlyPulls ==
    calc.out.joint.type = "rope" =>
        /\ calc.op = "solveVelocityConstraints" => QLessEq(calc.out.joint.m_impulse, Q(0))
        /\ calc.op = "solvePositionConstraints" =>
               IF QLessEq(AnchorDistance(calc.in), calc.in.joint.m_maxLength)
               THEN /\ calc.out.bodyA.c = calc.in.bodyA.c
                    /\ calc.out.bodyA.a = calc.in.bodyA.a
                    /\ calc.out.bodyB.c = calc.in.bodyB.c
                    /\ calc.out.bodyB.a = calc.in.bodyB.a
               ELSE /\ QLessEq(Moved(calc.in.bodyA, calc.out.bodyA), Settings_maxLinearCorrection)
                    /\ QLessEq(Moved(calc.in.bodyB, calc.out.bodyB), Settings_maxLinearCorrection)

\* a velocity solve that would have pushed (bodies approaching) and left the
\* impulse at 0 after it was negative, and a position solve whose correction
\* was cut to maxLinearCorrection
C23_Witness ==
    /\ calc.out.joint.type = "rope"
    /\ \/ /\ calc.op = "solveVelocityConstraints"
          /\ QLess(calc.in.joint.m_impulse, Q(0))
          /\ calc.out.joint.m_impulse = Q(0)
       \/ /\ calc.op = "solvePositionConstraints"
          /\ QGreater(QSub(AnchorDistance(calc.in), calc.in.joint.m_maxLength),
                      Settings_maxLinearCorrection)
          /\ Moved(calc.in.bodyB, calc.out.bodyB) = Settings_maxLinearCorrection

\* the friction joints stepped: both anchors at the bodies' centres, so that
\* the linear mass is a multiple of the identity, and every velocity and
\* impulse along the slope (3, 4), so that the lengths taken are exact; the
\* impulses are 0 or what an earlier step accumulated, under maxima that
\* setMaxForce and setMaxTorque may have changed since
FrictionScenes ==
    { Solved(With(JointFields("friction", Zero2, Zero2),
                  [m_linearImpulse |-> linear, m_angularImpulse |-> angular,
                   m_maxForce |-> max[1], m_maxTorque |-> max[2],
                   m_linearMass |-> [ex |-> Zero2, ey |-> Zero2], m_angularMass |-> Q(0)]),
             bodyA, Body(<<Q(4), Q(4)>>, vB, Q(2), Q(1), Q(1)), FALSE) :
          linear \in { Zero2, <<Q(3), Q(4)>> },
          angular \in { Q(0), Q(-3) },
          max \in { <<Q(0), Q(0)>>, <<Q(2), Q(2)>>, <<Q(20), Q(20)>> },
          bodyA \in { Body(Zero2, Zero2, Q(0), Q(1), Q(1)),
                      Body(Zero2, <<Q(6), Q(8)>>, Q(1), Q(0), Q(0)) },
          vB \in { Zero2, <<Q(3), Q(4)>> } }

\* v . v
LengthSquared(v) == QDot2(v[1], v[1], v[2], v[2])

C25_FrictionAppliesAccumulated ==
    (calc.out.joint.type = "friction" /\ calc.op = "solveVelocityConstraints") =>
        LET joint == calc.out.joint
            P == sub(joint.m_linearImpulse, calc.in.joint.m_linearImpulse)
            L == QSub(joint.m_angularImpulse, calc.in.joint.m_angularImpulse)
        IN  /\ calc.out.bodyA.v = subMul(calc.in.bodyA.v, joint.m_invMassA, P)
            /\ calc.out.bodyB.v = addMul(calc.in.bodyB.v, joint.m_invMassB, P)
            /\ calc.out.bodyA.w =
                   QSub(calc.in.bodyA.w,
                        QMul(joint.m_invIA, QAdd(L, crossVec2Vec2(joint.m_rA, P))))
            /\ calc.out.bodyB.w =
                   QAdd(calc.in.bodyB.w,
                        QMul(joint.m_invIB, QAdd(L, crossVec2Vec2(joint.m_rB, P))))

----------------------------------------------------------------------------
(* PulleyJoint: the constructor and _reset.  The numbers and arrays are JS   *)
(* values; both bodies are at the origin and unrotated, so that a body's     *)
(* getLocalPoint returns the point given.                                    *)

\* Vec2.distance(v, w), for points a whole number apart
Vec2_distance(v, w) ==
    LET dx == Get(v, "0").val - Get(w, "0").val
        dy == Get(v, "1").val - Get(w, "1").val
    IN  Num(CHOOSE r \in 0 .. dx * dx + dy * dy : r * r = dx * dx + dy * dy)

\* a || b
Or(a, b) == IF Truthy(a) THEN a ELSE b

\* new PulleyJoint(def, bodyA, bodyB, groundA, groundB, anchorA, anchorB, ratio)
PulleyJoint_new(def, groundA, groundB, anchorA, anchorB, ratio) ==
    LET m_lengthA == IF IsFinite(Get(def, "lengthA")) THEN Get(def, "lengthA")
                     ELSE Vec2_distance(anchorA, groundA)
        m_lengthB == IF IsFinite(Get(def, "lengthB")) THEN Get(def, "lengthB")
                     ELSE Vec2_distance(anchorB, groundB)
        m_ratio == IF IsFinite(ratio) THEN ratio ELSE Get(def, "ratio")
    IN  [m_groundAnchorA |-> IF Truthy(groundA) THEN groundA
                             ELSE Or(Get(def, "groundAnchorA"), Array2(Num(-1), Num(1))),
         m_groundAnchorB |-> IF Truthy(groundB) THEN groundB
                             ELSE Or(Get(def, "groundAnchorB"), Array2(Num(1), Num(1))),
         m_localAnchorA |-> IF Truthy(anchorA) THEN anchorA
                            ELSE Or(Get(def, "localAnchorA"), Array2(Num(-1), Num(0))),
         m_localAnchorB |-> IF Truthy(anchorB) THEN anchorB
                            ELSE Or(Get(def, "localAnchorB"), Array2(Num(1), Num(0))),
         m_lengthA |-> m_lengthA,
         m_lengthB |-> m_lengthB,
         m_ratio |-> m_ratio,
         m_constant |-> Plus2(m_lengthA, Times2(m_ratio, m_lengthB)),
         m_impulse |-> Num(0)]

\* this._reset(def)
PulleyJoint_reset(this, def) ==
    [this EXCEPT
        !.m_groundAnchorA = IF Vec2_isValid(Get(def, "groundAnchorA"))
                            THEN Get(def, "groundAnchorA") ELSE @,
        !.m_groundAnchorB = IF Vec2_isValid(Get(def, "groundAnchorB"))
                            THEN Get(def, "groundAnchorB") ELSE @,
        !.m_localAnchorA = IF Vec2_isValid(Get(def, "localAnchorA")) THEN Get(def, "localAnchorA")
                           ELSE IF Vec2_isValid(Get(def, "anchorA")) THEN Get(def, "anchorA")
                           ELSE @,
        !.m_localAnchorB = IF Vec2_isValid(Get(def, "localAnchorB")) THEN Get(def, "localAnchorB")
                           ELSE IF Vec2_isValid(Get(def, "anchorB")) THEN Get(def, "anchorB")
                           ELSE @,
        !.m_lengthA = IF IsFinite(Get(def, "lengthA")) THEN Get(def, "lengthA") ELSE @,
        !.m_lengthB = IF IsFinite(Get(def, "lengthB")) THEN Get(def, "lengthB") ELSE @,
        !.m_ratio = IF IsFinite(Get(def, "ratio")) THEN Get(def, "ratio") ELSE @]

\* a definition object with the properties given
Def(props) == [kind |-> "object", props |-> props]

\* the joints constructed: the lengths given by the definition or left to the
\* anchors, 3 and 5 from the ground anchors
PulleyJoints ==
    { PulleyJoint_new(Def([ratio |-> ratio] @@ lengths),
                      Array2(Num(0), Num(3)), Array2(Num(4), Num(3)),
                      Array2(Num(0), Num(0)), Array2(Num(4), Num(-2)), ratio) :
          lengths \in { <<>>, [lengthA |-> Num(2)], [lengthB |-> Num(1)],
                        [lengthA |-> Num(2), lengthB |-> Num(1)] },
          ratio \in { Num(1), Num(2) } }

\* the definitions _reset is called with
ResetDefs ==
    { Def(r @@ a @@ b @@ g) :
          a \in { <<>>, [lengthA |-> Num(1)], [lengthA |-> Num(4)] },
          b \in { <<>>, [lengthB |-> Num(1)], [lengthB |-> Num(4)] },
          r \in { [ratio |-> Undefined], [ratio |-> Num(1)], [ratio |-> Num(3)] },
          g \in { <<>>, [groundAnchorA |-> Array2(Num(0), Num(6))] } }

\* the _reset calls made on one joint
MaxResets == 2

NextPulley ==
    \E def \in ResetDefs :
        /\ calc.n < MaxResets
        /\ calc' = [calc EXCEPT !.op = "_reset", !.n = @ + 1, !.in = [this |-> calc.out, def |-> def],
                                !.out = PulleyJoint_reset(calc.out, def)]
        /\ UNCHANGED exceptCalcVars

\* C26: a pulley joint's constant is its reference lengths and ratio combined,
\* m_constant = m_lengthA + m_ratio * m_lengthB, after the constructor and
\* after every _reset(def), whatever the definition changes.
C26_PulleyConstantMatches ==
    calc.op \in { "new", "_reset" } =>
        calc.out.m_constant = Plus2(calc.out.m_lengthA, Times2(calc.out.m_ratio, calc.out.m_lengthB))

----------------------------------------------------------------------------
(* Joints between a body that has mass and one that has none *)

\* a static body, and a kinematic one that moves
MasslessBodies(c) ==
    { Body(c, Zero2, Q(0), Q(0), Q(0)), Body(c, <<Q(6), Q(8)>>, Q(1), Q(0), Q(0)) }

\* dynamic bodies in motion, with or without rotational inertia
DynamicBodies(c) == { Body(c, <<Q(3), Q(4)>>, Q(2), Q(1), i) : i \in { Q(0), Q(1) } }

\* body A at cA and body B at cB, one of them without mass
BodyPairs(cA, cB) ==
    (MasslessBodies(cA) \X DynamicBodies(cB)) \cup (DynamicBodies(cA) \X MasslessBodies(cB))

\* the four joints between such bodies, with the impulse of an earlier step
\* (which initVelocityConstraints sets to zero unless it warm-starts)
SolverScenes ==
    { Solved(With(JointFields("rope", <<Q(1), Q(0)>>, Zero2),
                  [m_maxLength |-> maxLength, m_impulse |-> impulse, m_u |-> Zero2,
                   m_length |-> Q(0), m_state |-> "inactiveLimit", m_mass |-> Q(0)]),
             b[1], b[2], FALSE) :
          maxLength \in { Q(4), Q(6) }, impulse \in { Q(-3) },
          b \in BodyPairs(Zero2, <<Q(4), Q(4)>>) }
    \cup
    { Solved(With(JointFields("friction", Zero2, Zero2),
                  [m_linearImpulse |-> linear, m_angularImpulse |-> angular,
                   m_maxForce |-> max, m_maxTorque |-> max,
                   m_linearMass |-> [ex |-> Zero2, ey |-> Zero2], m_angularMass |-> Q(0)]),
             b[1], b[2], FALSE) :
          linear \in { <<Q(3), Q(4)>> }, angular \in { Q(3) },
          max \in { Q(2), Q(20) },
          b \in BodyPairs(Zero2, <<Q(4), Q(4)>>) }
    \cup
    UNION { { Solved(With(JointFields("weld", <<Q(1), Q(0)>>, <<Q(1), Q(0)>>),
                          [m_impulse |-> impulse, m_gamma |-> Q(0), m_bias |-> Q(0),
                           m_mass |-> [ex |-> <<Q(0), Q(0), Q(0)>>, ey |-> <<Q(0), Q(0), Q(0)>>,
                                       ez |-> <<Q(0), Q(0), Q(0)>>],
                           m_referenceAngle |-> Q(0)]),
                     b[1], b[2], FALSE) :
                  impulse \in { <<Q(3), Q(4), Q(5)>> },
                  b \in BodyPairs(Zero2, cB) } :
            cB \in { Zero2, <<Q(3), Q(4)>> } }
    \cup
    { Solved(With(JointFields("pulley", <<Q(1), Q(0)>>, Zero2),
                  [m_groundAnchorA |-> Zero2, m_groundAnchorB |-> <<Q(10), Q(0)>>,
                   m_ratio |-> Q(2), m_constant |-> constant,
                   m_impulse |-> impulse, m_uA |-> Zero2, m_uB |-> Zero2, m_mass |-> Q(0)]),
             b[1], b[2], FALSE) :
          constant \in { Q(13), Q(15) }, impulse \in { Q(3) },
          b \in BodyPairs(<<Q(3), Q(3)>>, <<Q(10), Q(4)>>) }

\* a body without mass
Massless(body) == body.m_invMass = Q(0) /\ body.m_invI = Q(0)

----------------------------------------------------------------------------
(* The matrix utility module: the functions that take the array to write as  *)
(* their first parameter  (src/src/common/Matrix.ts).  A rotation is         *)
(* [s, c] and a transform [p, q].                                            *)

\* out[0] = x and out[1] = y, both computed before either is written
Written(H, out, x, y) == [H |-> [H EXCEPT ![out] = <<x, y>>], ret |-> out]

\* crossVec2Num(out, v, w)
Matrix_crossVec2Num(H, out, v, w) ==
    LET x == QMul(w, H[v][2])
        y == QMul(QNeg(w), H[v][1])
    IN  Written(H, out, x, y)

\* crossNumVec2(out, w, v)
Matrix_crossNumVec2(H, out, w, v) ==
    LET x == QMul(QNeg(w), H[v][2])
        y == QMul(w, H[v][1])
    IN  Written(H, out, x, y)

\* subVec2(out, v, w): out[0] is written, then out[1]
Matrix_subVec2(H, out, v, w) ==
    LET H1 == [H EXCEPT ![out][1] = QSub(H[v][1], H[w][1])]
        H2 == [H1 EXCEPT ![out][2] = QSub(H1[v][2], H1[w][2])]
    IN  [H |-> H2, ret |-> out]

\* rotVec2(out, q, v): out[0] is written, then out[1]
Matrix_rotVec2(H, out, q, v) ==
    LET H1 == [H EXCEPT ![out][1] = QSub(QMul(q.c, H[v][1]), QMul(q.s, H[v][2]))]
        H2 == [H1 EXCEPT ![out][2] = QAdd(QMul(q.s, H1[v][1]), QMul(q.c, H1[v][2]))]
    IN  [H |-> H2, ret |-> out]

\* derotVec2(out, q, v)
Matrix_derotVec2(H, out, q, v) ==
    LET x == QAdd(QMul(q.c, H[v][1]), QMul(q.s, H[v][2]))
        y == QAdd(QMul(QNeg(q.s), H[v][1]), QMul(q.c, H[v][2]))
    IN  Written(H, out, x, y)

\* rerotVec2(out, before, after, v)
Matrix_rerotVec2(H, out, before, after, v) ==
    LET x0 == QAdd(QMul(before.c, H[v][1]), QMul(before.s, H[v][2]))
        y0 == QAdd(QMul(QNeg(before.s), H[v][1]), QMul(before.c, H[v][2]))
        x == QSub(QMul(after.c, x0), QMul(after.s, y0))
        y == QAdd(QMul(after.s, x0), QMul(after.c, y0))
    IN  Written(H, out, x, y)

\* transformVec2(out, xf, v)
Matrix_transformVec2(H, out, xf, v) ==
    LET x == QAdd(QSub(QMul(xf.q.c, H[v][1]), QMul(xf.q.s, H[v][2])), xf.p[1])
        y == QAdd(QAdd(QMul(xf.q.s, H[v][1]), QMul(xf.q.c, H[v][2])), xf.p[2])
    IN  Written(H, out, x, y)

\* detransformVec2(out, xf, v)
Matrix_detransformVec2(H, out, xf, v) ==
    LET px == QSub(H[v][1], xf.p[1])
        py == QSub(H[v][2], xf.p[2])
        x == QAdd(QMul(xf.q.c, px), QMul(xf.q.s, py))
        y == QAdd(QMul(QNeg(xf.q.s), px), QMul(xf.q.c, py))
    IN  Written(H, out, x, y)

\* the unit rotations drawn: by 0, a quarter turn, a half turn, and the angle
\* of the slope (3, 4)
Rotations ==
    { [s |-> Q(0), c |-> Q(1)], [s |-> Q(1), c |-> Q(0)], [s |-> Q(0), c |-> Q(-1)],
      [s |-> Frac(4, 5), c |-> Frac(3, 5)] }

\* memory with the vectors, and the number, rotations and transform of a call
OutStart(p, w, a, q, q1, t) ==
    [in |-> Memory(p, w), a |-> a, b |-> a, heap |-> Memory(p, w), call |-> NoVecCall,
     q |-> q, q1 |-> q1, xf |-> [p |-> t, q |-> q]]

InitOut ==
    vec \in { OutStart(p, w, a, q, q1, t) :
                  p \in { QPair(1, 0), QPair(3, 4) }, w \in { QPair(2, 5) }, a \in Scalars,
                  q \in Rotations, q1 \in Rotations, t \in { QPair(0, 0), QPair(1, -2) } }

\* each function is called on array 1 with array 1 or array 3 to write; then
\* derotVec2 may follow rotVec2 on the array it wrote
NextOut ==
    \/ \E out \in {1, 3} :
           VecStep /\ Called("crossVec2Num", 1, 1, out,
                             Matrix_crossVec2Num(vec.heap, out, 1, vec.a))
    \/ \E out \in {1, 3} :
           VecStep /\ Called("crossNumVec2", 1, 1, out,
                             Matrix_crossNumVec2(vec.heap, out, vec.a, 1))
    \/ \E out \in {1, 3} :
           VecStep /\ Called("subVec2", 1, 2, out, Matrix_subVec2(vec.heap, out, 1, 2))
    \/ \E out \in {1, 3} :
           VecStep /\ Called("rotVec2", 1, 1, out, Matrix_rotVec2(vec.heap, out, vec.q, 1))
    \/ \E out \in {1, 3} :
           VecStep /\ Called("derotVec2", 1, 1, out, Matrix_derotVec2(vec.heap, out, vec.q, 1))
    \/ \E out \in {1, 3} :
           VecStep /\ Called("rerotVec2", 1, 1, out,
                             Matrix_rerotVec2(vec.heap, out, vec.q, vec.q1, 1))
    \/ \E out \in {1, 3} :
           VecStep /\ Called("transformVec2", 1, 1, out,
                             Matrix_transformVec2(vec.heap, out, vec.xf, 1))
    \/ \E out \in {1, 3} :
           VecStep /\ Called("detransformVec2", 1, 1, out,
                             Matrix_detransformVec2(vec.heap, out, vec.xf, 1))
    \/ /\ vec.call.op = "rotVec2"
       /\ Called("derotVec2 after rotVec2", vec.call.out, vec.call.out, vec.call.out,
                 Matrix_derotVec2(vec.heap, vec.call.out, vec.q, vec.call.out))
       /\ UNCHANGED exceptVecVars

\* what the call made leaves in a separate array, array 3, given the memory
\* of before the call
Separate ==
    LET H == vec.in
    IN  CASE vec.call.op = "crossVec2Num" -> Matrix_crossVec2Num(H, 3, 1, vec.a).H[3]
          [] vec.call.op = "crossNumVec2" -> Matrix_crossNumVec2(H, 3, vec.a, 1).H[3]
          [] vec.call.op = "subVec2" -> Matrix_subVec2(H, 3, 1, 2).H[3]
          [] vec.call.op = "rotVec2" -> Matrix_rotVec2(H, 3, vec.q, 1).H[3]
          [] vec.call.op = "derotVec2" -> Matrix_derotVec2(H, 3, vec.q, 1).H[3]
          [] vec.call.op = "rerotVec2" -> Matrix_rerotVec2(H, 3, vec.q, vec.q1, 1).H[3]
          [] vec.call.op = "transformVec2" -> Matrix_transformVec2(H, 3, vec.xf, 1).H[3]
          [] vec.call.op = "detransformVec2" -> Matrix_detransformVec2(H, 3, vec.xf, 1).H[3]

\* C28: each function of the matrix utility module that takes the array to
\* write as a parameter leaves in it the result of the inputs as they were at
\* the call, also when that array is the input vector: the same vector as with
\* a separate array; so derotVec2 after rotVec2, by the same unit rotation and
\* in place, restores the vector.
C28_OutMayBeInput ==
    /\ vec.call.op \notin { "none", "derotVec2 after rotVec2" } =>
           vec.heap[vec.call.out] = Separate
    /\ vec.call.op = "derotVec2 after rotVec2" => vec.heap[vec.call.out] = vec.in[1]

----------------------------------------------------------------------------
(* The testbed's memo  (src/testbed/StageTestbed.ts).  The arguments are the *)
(* numbers 1 and 2; an array slot never written reads as undefined, here 0, *)
(* which is === to neither.                                                  *)

\* the for loop of recall at index i (from 1): it runs while equal holds
RECURSIVE RecallLoop(_, _, _, _)
RecallLoop(memory, rest, i, equal) ==
    IF equal /\ i <= Len(rest)
    THEN RecallLoop([memory EXCEPT ![i] = rest[i]], rest, i + 1, memory[i] = rest[i])
    ELSE [memory |-> memory, equal |-> equal]

\* memory.length = n: the slots added are empty
SetLength(memory, n) == [k \in 1 .. n |-> IF k <= Len(memory) THEN memory[k] ELSE 0]

\* recall(...rest): the memory it leaves and the value it returns
memo_recall(memory, rest) ==
    LET r == RecallLoop(memory, rest, 1, Len(memory) = Len(rest))
    IN  [memory |-> SetLength(r.memory, Len(rest)), ret |-> r.equal]

\* reset()
memo_reset(memory) == SetLength(memory, 0)

\* the argument lists recall is called with
ArgLists == { <<a>> : a \in {1, 2} } \cup { <<a, b>> : a \in {1, 2}, b \in {1, 2} }

\* the calls made on one memo
MaxRecalls == 5

\* memo(): empty memory; calc.prev holds the arguments of the recall before,
\* if there was one since the memo was made or reset
NewMemo == [memory |-> <<>>, prev |-> <<>>, in |-> <<>>, op |-> "none", out |-> FALSE, n |-> 0]

NextMemo ==
    \/ \E rest \in ArgLists :
           /\ calc.n < MaxRecalls
           /\ calc' = [calc EXCEPT !.op = "recall", !.n = @ + 1,
                                   !.in = [rest |-> rest, prev |-> calc.prev],
                                   !.prev = <<rest>>,
                                   !.memory = memo_recall(calc.memory, rest).memory,
                                   !.out = memo_recall(calc.memory, rest).ret]
           /\ UNCHANGED exceptCalcVars
    \/ /\ calc.n < MaxRecalls
       /\ calc.op = "recall"
       /\ calc' = [calc EXCEPT !.op = "reset", !.n = @ + 1, !.prev = <<>>,
                               !.memory = memo_reset(calc.memory)]
       /\ UNCHANGED exceptCalcVars

\* C30: recall(args) returns true exactly when the recall before it on the
\* same memo, with no reset in between, had the same arguments, as many and
\* each identical; the first recall and the one after a reset return false.
C30_RecallIffSameAsBefore ==
    calc.op = "recall" => (calc.out <=> calc.in.prev = <<calc.in.rest>>)

----------------------------------------------------------------------------
(* Specifications *)

\* the parts of the program that take no part in the calls of a function
Quiet ==
    /\ InitTree
    /\ InitWorld
    /\ MatIdle
    /\ VecIdle

\* every part of the program as it is constructed
Init ==
    /\ Quiet
    /\ calc = NoCalc

\* the same, with the matrices and operands drawn
InitMatCalls ==
    /\ InitTree
    /\ InitWorld
    /\ InitMat
    /\ VecIdle
    /\ calc = NoCalc

\* the same, with the vectors and numbers drawn
InitVecCalls ==
    /\ InitTree
    /\ InitWorld
    /\ MatIdle
    /\ InitVec
    /\ calc = NoCalc

\* the same, with the value isValid is called on drawn
InitIsValid ==
    /\ Quiet
    /\ calc \in { [NoCalc EXCEPT !.in = obj] : obj \in ValidityInputs }

\* the same, with the boxes of combine and contains drawn
InitCombine ==
    /\ Quiet
    /\ calc \in { [NoCalc EXCEPT !.in = p] : p \in BoxPairs }

\* the same, with the box and the ray of rayCast drawn
InitRayCast ==
    /\ Quiet
    /\ calc \in { [NoCalc EXCEPT !.in = r] : r \in RayCasts }

\* the same, with the joint asked for its reaction drawn
InitReaction ==
    /\ Quiet
    /\ calc \in { [NoCalc EXCEPT !.in = r] : r \in ReactionCalls }

\* the same, with the joint, its bodies and the time step drawn
InitJoints ==
    /\ Quiet
    /\ calc \in { [in |-> sc, op |-> "none", out |-> sc, step |-> st] :
                     sc \in JointScenes, st \in TimeSteps }

InitSolve ==
    /\ Quiet
    /\ calc \in { [in |-> i, op |-> "none", out |-> FALSE] : i \in SolveInputs }

InitDistance ==
    /\ Quiet
    /\ calc \in { [in |-> i, op |-> "none", out |-> FALSE] : i \in DistanceInputs }

InitValidity ==
    /\ Quiet
    /\ calc \in { [in |-> i, op |-> "none", out |-> FALSE] : i \in Checked }

\* the same, with the rope joint, its bodies and the time step drawn
InitRope ==
    /\ Quiet
    /\ calc \in { [in |-> sc, op |-> "none", out |-> sc, step |-> st, n |-> 0] :
                     sc \in RopeScenes, st \in SolverSteps }

\* the same, with the friction joint, its bodies and the time step drawn
InitFriction ==
    /\ Quiet
    /\ calc \in { [in |-> sc, op |-> "none", out |-> sc, step |-> st, n |-> 0] :
                     sc \in FrictionScenes, st \in SolverSteps }

\* the same, with the pulley joint constructed
InitPulley ==
    /\ Quiet
    /\ calc \in { [in |-> Undefined, op |-> "new", out |-> joint, n |-> 0] : joint \in PulleyJoints }

\* the same, with one of the four joints, its bodies and the time step drawn
InitSolver ==
    /\ Quiet
    /\ calc \in { [in |-> sc, op |-> "none", out |-> sc, step |-> st, n |-> 0] :
                     sc \in SolverScenes, st \in SolverSteps }

\* the same, with the vector, the rotations and the transform drawn
InitOutCalls ==
    /\ InitTree
    /\ InitWorld
    /\ MatIdle
    /\ InitOut
    /\ calc = NoCalc

\* the same, with a memo made
InitMemo ==
    /\ Quiet
    /\ calc = NewMemo

SpecTree == Init /\ [][NextTree]_vars

SpecBroadPhase == Init /\ [][NextBroadPhase]_vars

SpecWorld == Init /\ [][NextWorld]_vars

SpecMat == InitMatCalls /\ [][NextMat]_vars

SpecVec == InitVecCalls /\ [][NextVec]_vars

SpecMatrix == InitVecCalls /\ [][NextMatrix]_vars

SpecIsValid == InitIsValid /\ [][NextIsValid]_vars

SpecCombine == InitCombine /\ [][NextCombine]_vars

SpecRayCast == InitRayCast /\ [][NextRayCast]_vars

SpecReaction == InitReaction /\ [][NextReaction]_vars

SpecJoints == InitJoints /\ [][NextJoints]_vars

SpecSolve == InitSolve /\ [][NextSolve]_vars

SpecDistance == InitDistance /\ [][NextDistance]_vars

SpecValidity == InitValidity /\ [][NextValidity]_vars

SpecRope == InitRope /\ [][NextSolver]_vars

SpecFriction == InitFriction /\ [][NextSolver]_vars

SpecPulley == InitPulley /\ [][NextPulley]_vars

SpecSolver == InitSolver /\ [][NextSolver]_vars

SpecOut == InitOutCalls /\ [][NextOut]_vars

SpecMemo == InitMemo /\ [][NextMemo]_vars

====
